---------------------------- MODULE Spec2Model ----------------------------
(***************************************************************************)
(* The AT command engine of the RIL (SourceCode/src/ril.c): the command    *)
(* loop of _RIL_SendATCmd, RIL_SendBinaryData with its response helper,    *)
(* RIL_ServiceRoutine, the access helpers, and the line classifiers, run   *)
(* by two caller threads against a modem that echoes and answers.          *)
(*                                                                         *)
(* Bytes are one-character strings; the RX stream is a sequence of tagged  *)
(* bytes [b, src, k, n]: b is the byte, and src/k/n are bookkeeping that   *)
(* records which modem emission the byte belongs to (the code reads b      *)
(* only).                                                                  *)
(***************************************************************************)
EXTENDS Integers, Sequences, FiniteSets, TLC

\* ------------------------------------------------------------------ bounds
\* top-level calls (send, send_binary, service_routine) over all threads
MaxCalls == 2
\* unsolicited lines the modem emits
MaxUrc == 1
\* information lines the modem emits per command before the final result
MaxInfo == 1
\* depth of the call stack of a thread (2 = a callback may nest one command)
MaxDepth == 2
\* unsolicited lines the modem emits where their order is at stake
UrcBurst == 3
\* comma-separated fields in the unsolicited lines that are parsed
MaxFields == 10
MaxOctets == 3
MaxTokens == 2
SampleOctets == {0, 9, 10, 79, 165, 255}

\* ------------------------------------------------------- program constants
RIL_USE_OS == 0
RIL_LINE_LEN == 512
RIL_TX_STREAM_SIZE == 512
CRLFLen == 2
DefaultTimeout == 5000
DefaultBinaryTimeout == 180000
SpaceWaitMs == 5000
StuckLimit == 100
ProgressCheckInterval == 10
FlushBaseMs == 2000
UINT16 == 65536
LIB_SMS_PDU_BUF_MAX_LEN == 180
LIB_SMS_PHONE_NUMBER_MAX_LEN == 20
LIB_SMS_USER_DATA_MAX_LEN == 160
RIL_RX_STREAM_SIZE == 512
MAX_URC_PARAMS == 8
RIL_UTIL_PARAM_MAX_SIZE == 512
RIL_INIT_RETRY == 10
InitAttempts == 3
RestartDelayMs == 1000
RIL_AT_UNINITIALIZED == -5

Threads == {1, 2}

CR == "\r"
LF == "\n"
NUL == "\\0"
CRLF == <<CR, LF>>

\* ------------------------------------------------------------ byte strings
Min(a, b) == IF a < b THEN a ELSE b

\* the bytes of a tagged stream
Bytes(s) == [i \in DOMAIN s |-> s[i].b]

\* index of the first occurrence of pattern p in the bytes of stream s, 0 if none
IndexOfPattern(s, p) ==
    LET hits == {i \in 1..(Len(s) - Len(p) + 1) : \A j \in 1..Len(p) : s[i + j - 1].b = p[j]}
    IN IF hits = {} THEN 0 ELSE CHOOSE i \in hits : \A j \in hits : i <= j

\* IStream_readBytesUntilPattern: the number of bytes up to and including the
\* first occurrence of the pattern, 0 when there is no complete frame or the
\* frame does not fit the destination
IStream_readBytesUntilPattern(s, p, maxLen) ==
    LET at == {IndexOfPattern(s, p)}
    IN CHOOSE n \in 0..Len(s) :
         \E i \in at : n = IF i = 0 \/ i + Len(p) - 1 > maxLen THEN 0 ELSE i + Len(p) - 1

\* IStream_readBytesUntil: the same for a one-byte delimiter
IStream_readBytesUntil(s, c, maxLen) == IStream_readBytesUntilPattern(s, <<c>>, maxLen)

\* the stream after its first n bytes were read
Drop(s, n) == SubSeq(s, n + 1, Len(s))

\* C string comparison strncmp(a, b, n) = 0 of NUL-terminated a and b
StrncmpEq(a, b, n) ==
    LET ca(i) == IF i <= Len(a) THEN a[i] ELSE NUL
        cb(i) == IF i <= Len(b) THEN b[i] ELSE NUL
    IN \A i \in 1..n : (i <= Min(Len(a), Len(b)) + 1) => ca(i) = cb(i)

\* Str_compareFix(a, b, len) = 0: the first len bytes agree
Str_compareFix(a, b, len) ==
    IF SubSeq(a, 1, Min(len, Len(a))) = SubSeq(b, 1, Min(len, Len(b))) THEN 0 ELSE 1

\* ------------------------------------------------------------------ sscanf
IsSpace(c) == c \in {" ", "\t", CR, LF}
Digits == <<"0", "1", "2", "3", "4", "5", "6", "7", "8", "9">>
IsDigit(c) == \E d \in 1..10 : Digits[d] = c
DigitVal(c) == (CHOOSE d \in 1..10 : Digits[d] = c) - 1

RECURSIVE SkipSpace(_, _)
SkipSpace(line, i) ==
    IF i <= Len(line) /\ IsSpace(line[i]) THEN SkipSpace(line, i + 1) ELSE i

RECURSIVE ScanDigits(_, _, _)
ScanDigits(line, i, acc) ==
    IF i <= Len(line) /\ IsDigit(line[i])
    THEN ScanDigits(line, i + 1, (acc * 10 + DigitVal(line[i])) % UINT16)
    ELSE acc

\* the %hu conversion at position i: EOF (-1) at the end of the input, a
\* matching failure (0) when no digit follows the optional sign, else 1
ScanHu(line, i) ==
    LET j == SkipSpace(line, i)
        neg == j <= Len(line) /\ line[j] = "-"
        k == IF j <= Len(line) /\ line[j] \in {"+", "-"} THEN j + 1 ELSE j
    IN IF j > Len(line) THEN [ret |-> -1, val |-> 0]
       ELSE IF k > Len(line) \/ ~IsDigit(line[k]) THEN [ret |-> 0, val |-> 0]
       ELSE LET v == ScanDigits(line, k, 0)
            IN [ret |-> 1, val |-> IF neg THEN (UINT16 - v) % UINT16 ELSE v]

\* sscanf(line, fmt & "%hu", &val): fmt is a sequence of literal bytes in which
\* a space matches any amount of white space; ret is the value sscanf returns
RECURSIVE Sscanf(_, _, _, _)
Sscanf(line, i, fmt, j) ==
    IF j > Len(fmt) THEN ScanHu(line, i)
    ELSE IF fmt[j] = " " THEN Sscanf(line, SkipSpace(line, i), fmt, j + 1)
    ELSE IF i > Len(line) THEN [ret |-> -1, val |-> 0]
    ELSE IF line[i] = fmt[j] THEN Sscanf(line, i + 1, fmt, j + 1)
    ELSE [ret |-> 0, val |-> 0]

\* the %u conversion at position i, into a uint32_t: it wraps at 2^32, which
\* no number of fewer than ten digits reaches
RECURSIVE ScanDigits32(_, _, _)
ScanDigits32(line, i, acc) ==
    IF i <= Len(line) /\ IsDigit(line[i])
    THEN ScanDigits32(line, i + 1, acc * 10 + DigitVal(line[i]))
    ELSE acc

ScanU(line, i) ==
    LET j == SkipSpace(line, i)
        neg == j <= Len(line) /\ line[j] = "-"
        k == IF j <= Len(line) /\ line[j] \in {"+", "-"} THEN j + 1 ELSE j
    IN IF j > Len(line) THEN [ret |-> -1, val |-> 0]
       ELSE IF k > Len(line) \/ ~IsDigit(line[k]) THEN [ret |-> 0, val |-> 0]
       ELSE LET v == ScanDigits32(line, k, 0)
            IN [ret |-> 1, val |-> IF neg THEN -v ELSE v]

\* sscanf(line, fmt & "%u", &val)
RECURSIVE SscanfU(_, _, _, _)
SscanfU(line, i, fmt, j) ==
    IF j > Len(fmt) THEN ScanU(line, i)
    ELSE IF fmt[j] = " " THEN SscanfU(line, SkipSpace(line, i), fmt, j + 1)
    ELSE IF i > Len(line) THEN [ret |-> -1, val |-> 0]
    ELSE IF line[i] = fmt[j] THEN SscanfU(line, i + 1, fmt, j + 1)
    ELSE [ret |-> 0, val |-> 0]

CONNECT == <<"C", "O", "N", "N", "E", "C", "T">>
CONNECT_FMT == CONNECT \o <<" ">>

CME_FMT == <<"+", "C", "M", "E", " ", "E", "R", "R", "O", "R", ":", " ">>
CMS_FMT == <<"+", "C", "M", "S", " ", "E", "R", "R", "O", "R", ":", " ">>
L_ERROR == <<"E", "R", "R", "O", "R">>
L_OK == <<"O", "K">>

\* values an uninitialised uint16_t local may hold
Garbage == {0, 7}

\* _lineIsError: ret is the function's result, code what it leaves in *errCode
\* (written by sscanf only on a conversion; g is the value the uninitialised
\* local held before the call)
_lineIsError(line, len, g) ==
    LET r1 == Sscanf(line, 1, CME_FMT, 1)
        r2 == Sscanf(line, 1, CMS_FMT, 1)
    IN IF r1.ret # 0 THEN [ret |-> r1.ret, code |-> IF r1.ret = 1 THEN r1.val ELSE g]
       ELSE IF r2.ret # 0 THEN [ret |-> r2.ret, code |-> IF r2.ret = 1 THEN r2.val ELSE g]
       ELSE [ret |-> IF StrncmpEq(line, L_ERROR, len) THEN 1 ELSE 0, code |-> g]

\* _lineIsURC
_lineIsURC(line) == Len(line) > 0 /\ line[1] = "+"

\* okRespCallback
okRespCallback(line, len) == IF StrncmpEq(line, L_OK, len) THEN "SUCCESS" ELSE "CONTINUE"

\* ------------------------------------------------------------ URC registry
\* URC_LIST: the tags, in enum order
URC_NAMES ==
    << "URC_CREG",
       "URC_CREG_LOC",
       "URC_CEREG",
       "URC_CGREG",
       "URC_CGREG_LOC",
       "URC_CTZV",
       "URC_CTZE",
       "URC_CMTI",
       "URC_CMT_TEXT",
       "URC_CDS_TEXT",
       "URC_CDSI",
       "URC_COLP",
       "URC_CLIP",
       "URC_CRING",
       "URC_RDY",
       "URC_CFUN",
       "URC_CPIN",
       "URC_QIND_SMS_DONE",
       "URC_QIND_PB_DONE",
       "URC_CGEREP_REJECT",
       "URC_CGEREP_NW_REACT",
       "URC_CGEREP_NW_DEACT",
       "URC_CGEREP_ME_DEACT",
       "URC_CGEREP_NW_DETACH",
       "URC_CGEREP_ME_DETACH",
       "URC_CGEREP_NW_CLASS",
       "URC_CGEREP_ME_CLASS",
       "URC_CGEREP_PDN_ACT",
       "URC_CGEREP_PDN_DEACT",
       "URC_USIM_0",
       "URC_USIM_1",
       "URC_QIND_CSQ",
       "URC_QIND_SMSFULL",
       "URC_QIND_ACT",
       "URC_QSIMSTAT",
       "URC_QCSQ",
       "URC_QNETDEVSTATUS",
       "URC_QMTSTAT",
       "URC_QMTRECV",
       "URC_QMTPING" >>

\* URC_STRINGS: the prefix of each entry
URC_STRINGS ==
    << <<"+", "C", "R", "E", "G">>,
       <<"+", "C", "R", "E", "G">>,
       <<"+", "C", "E", "R", "E", "G">>,
       <<"+", "C", "G", "R", "E", "G">>,
       <<"+", "C", "G", "R", "E", "G">>,
       <<"+", "C", "T", "Z", "V">>,
       <<"+", "C", "T", "Z", "E">>,
       <<"+", "C", "M", "T", "I">>,
       <<"+", "C", "M", "T">>,
       <<"+", "C", "D", "S">>,
       <<"+", "C", "D", "S", "I">>,
       <<"+", "C", "O", "L", "P">>,
       <<"+", "C", "L", "I", "P">>,
       <<"+", "C", "R", "I", "N", "G">>,
       <<"R", "D", "Y">>,
       <<"+", "C", "F", "U", "N", ":", " ", "1">>,
       <<"+", "C", "P", "I", "N">>,
       <<"+", "Q", "I", "N", "D", ":", " ", "S", "M", "S", " ", "D", "O", "N", "E">>,
       <<"+", "Q", "I", "N", "D", ":", " ", "P", "B", " ", "D", "O", "N", "E">>,
       <<"+", "C", "G", "E", "V", ":", " ", "R", "E", "J", "E", "C", "T">>,
       <<"+", "C", "G", "E", "V", ":", " ", "N", "W", " ", "R", "E", "A", "C", "T">>,
       <<"+", "C", "G", "E", "V", ":", " ", "N", "W", " ", "D", "E", "A", "C", "T">>,
       <<"+", "C", "G", "E", "V", ":", " ", "M", "E", " ", "D", "E", "A", "C", "T">>,
       <<"+", "C", "G", "E", "V", ":", " ", "N", "W", " ", "D", "E", "T", "A", "C", "H">>,
       <<"+", "C", "G", "E", "V", ":", " ", "M", "E", " ", "D", "E", "T", "A", "C", "H">>,
       <<"+", "C", "G", "E", "V", ":", " ", "N", "W", " ", "C", "L", "A", "S", "S">>,
       <<"+", "C", "G", "E", "V", ":", " ", "M", "E", " ", "C", "L", "A", "S", "S">>,
       <<"+", "C", "G", "E", "V", ":", " ", "P", "D", "N", " ", "A", "C", "T">>,
       <<"+", "C", "G", "E", "V", ":", " ", "P", "D", "N", " ", "D", "E", "A", "C", "T">>,
       <<"+", "U", "S", "I", "M", ":", " ", "0">>,
       <<"+", "U", "S", "I", "M", ":", " ", "1">>,
       <<"+", "Q", "I", "N", "D", ":", " ", "\"", "c", "s", "q", "\"">>,
       <<"+", "Q", "I", "N", "D", ":", " ", "\"", "s", "m", "s", "f", "u", "l", "l", "\"">>,
       <<"+", "Q", "I", "N", "D", ":", " ", "\"", "a", "c", "t", "\"">>,
       <<"+", "Q", "S", "I", "M", "S", "T", "A", "T">>,
       <<"+", "Q", "C", "S", "Q">>,
       <<"+", "Q", "N", "E", "T", "D", "E", "V", "S", "T", "A", "T", "U", "S">>,
       <<"+", "Q", "M", "T", "S", "T", "A", "T">>,
       <<"+", "Q", "M", "T", "R", "E", "C", "V">>,
       <<"+", "Q", "M", "T", "P", "I", "N", "G">> >>

\* URC_AT_COMMANDS: the activation command of each entry, <<>> for NULL
URC_AT_COMMANDS ==
    << <<"A", "T", "+", "C", "R", "E", "G", "=", "1">>,
       <<"A", "T", "+", "C", "R", "E", "G", "=", "2">>,
       <<"A", "T", "+", "C", "E", "R", "E", "G", "=", "2">>,
       <<"A", "T", "+", "C", "G", "R", "E", "G", "=", "1">>,
       <<"A", "T", "+", "C", "G", "R", "E", "G", "=", "2">>,
       <<"A", "T", "+", "C", "T", "Z", "R", "=", "1">>,
       <<"A", "T", "+", "C", "T", "Z", "R", "=", "2">>,
       <<"A", "T", "+", "C", "N", "M", "I", "=", "2", ",", "1", ",", "0", ",", "1", ",", "0">>,
       <<>>,
       <<>>,
       <<>>,
       <<"A", "T", "+", "C", "O", "L", "P", "=", "1">>,
       <<"A", "T", "+", "C", "L", "I", "P", "=", "1">>,
       <<"A", "T", "+", "C", "R", "C", "=", "1">>,
       <<>>,
       <<>>,
       <<>>,
       <<>>,
       <<>>,
       <<"A", "T", "+", "C", "G", "E", "R", "E", "P", "=", "1", ",", "1">>,
       <<"A", "T", "+", "C", "G", "E", "R", "E", "P", "=", "1", ",", "1">>,
       <<"A", "T", "+", "C", "G", "E", "R", "E", "P", "=", "1", ",", "1">>,
       <<"A", "T", "+", "C", "G", "E", "R", "E", "P", "=", "1", ",", "1">>,
       <<"A", "T", "+", "C", "G", "E", "R", "E", "P", "=", "1", ",", "1">>,
       <<"A", "T", "+", "C", "G", "E", "R", "E", "P", "=", "1", ",", "1">>,
       <<"A", "T", "+", "C", "G", "E", "R", "E", "P", "=", "1", ",", "1">>,
       <<"A", "T", "+", "C", "G", "E", "R", "E", "P", "=", "1", ",", "1">>,
       <<"A", "T", "+", "C", "G", "E", "R", "E", "P", "=", "1", ",", "1">>,
       <<"A", "T", "+", "C", "G", "E", "R", "E", "P", "=", "1", ",", "1">>,
       <<>>,
       <<>>,
       <<"A", "T", "+", "Q", "I", "N", "D", "C", "F", "G", "=", "\"", "c", "s", "q", "\"", ",", "0", ",", "0">>,
       <<"A", "T", "+", "Q", "I", "N", "D", "C", "F", "G", "=", "\"", "s", "m", "s", "f", "u", "l", "l", "\"", ",", "1", ",", "0">>,
       <<"A", "T", "+", "Q", "I", "N", "D", "C", "F", "G", "=", "\"", "a", "c", "t", "\"", ",", "1", ",", "0">>,
       <<"A", "T", "+", "Q", "S", "I", "M", "S", "T", "A", "T", "=", "1">>,
       <<"A", "T", "+", "Q", "C", "S", "Q", "=", "0">>,
       <<>>,
       <<>>,
       <<>>,
       <<>> >>

URC_MAX == Len(URC_STRINGS)

\* Str_findStrs: the first position of the line at which some entry of the
\* table starts, and the first such entry; idx = 0 when there is none
Str_findStrs(line, strs) ==
    LET at(i, e) == i + Len(strs[e]) - 1 <= Len(line)
                    /\ SubSeq(line, i, i + Len(strs[e]) - 1) = strs[e]
        pos == {i \in 1..Len(line) : \E e \in 1..Len(strs) : at(i, e)}
    IN IF pos = {} THEN [idx |-> 0, pos |-> 0]
       ELSE LET i == CHOOSE q \in pos : \A r \in pos : q <= r
                es == {e \in 1..Len(strs) : at(i, e)}
            IN [idx |-> CHOOSE e \in es : \A d \in es : e <= d, pos |-> i]

\* Str_trimRight: s without the white space at its end
RECURSIVE Str_trimRight(_)
Str_trimRight(s) ==
    IF s # <<>> /\ IsSpace(s[Len(s)]) THEN Str_trimRight(SubSeq(s, 1, Len(s) - 1)) ELSE s

\* Param_next on the buffer s with the cursor cur (Ptr as an index into s, 0
\* for NULL, and Len): whether there is a parameter, its text, the cursor after
Param_next(s, cur) ==
    IF cur.Ptr = 0 \/ (cur.Ptr > Len(s) /\ cur.Len = 0)
    THEN [some |-> FALSE, Value |-> <<>>, cursor |-> cur]
    ELSE LET p == SkipSpace(s, cur.Ptr)
             len1 == cur.Len - (p - cur.Ptr)
             seps == {i \in p..Len(s) : s[i] = ","}
             q == IF seps = {} THEN 0 ELSE CHOOSE i \in seps : \A j \in seps : i <= j
         IN [some |-> TRUE,
             Value |-> Str_trimRight(SubSeq(s, p, IF q = 0 THEN Len(s) ELSE q - 1)),
             cursor |-> IF q = 0 THEN [Ptr |-> 0, Len |-> 0]
                        ELSE [Ptr |-> q + 1, Len |-> len1 - ((q - p) + 1)]]

UpperCase == <<"A", "B", "C", "D", "E", "F", "G", "H", "I", "J", "K", "L", "M",
               "N", "O", "P", "Q", "R", "S", "T", "U", "V", "W", "X", "Y", "Z">>
LowerCase == <<"a", "b", "c", "d", "e", "f", "g", "h", "i", "j", "k", "l", "m",
               "n", "o", "p", "q", "r", "s", "t", "u", "v", "w", "x", "y", "z">>

\* Str_lowerCase(str), the __convert of PARAM_CASE_INSENSITIVE
Str_lowerCase(str) ==
    [i \in DOMAIN str |->
        IF \E k \in 1..26 : UpperCase[k] = str[i]
        THEN LowerCase[CHOOSE k \in 1..26 : UpperCase[k] = str[i]]
        ELSE str[i]]

\* the value of the digits str in the given base, -1 if str is empty or has
\* another character (Str_convertNum and Str_convertUNum, whose code is not in
\* the repository: signed decimal, hex and binary integers)
RECURSIVE Str_convertUNum(_, _)
Str_convertUNum(str, base) ==
    IF str = <<>> THEN -1
    ELSE LET c == Str_lowerCase(<< str[Len(str)] >>)[1]
             d == IF IsDigit(c) THEN DigitVal(c)
                  ELSE IF \E k \in 1..6 : LowerCase[k] = c
                  THEN 9 + (CHOOSE k \in 1..6 : LowerCase[k] = c)
                  ELSE -1
             rest == IF Len(str) = 1 THEN 0 ELSE Str_convertUNum(SubSeq(str, 1, Len(str) - 1), base)
         IN IF d < 0 \/ d >= base \/ rest < 0 THEN -1 ELSE rest * base + d

\* the digits of n in the given base (Str_parseNum, whose code is not in the
\* repository)
RECURSIVE Str_parseNum(_, _)
Str_parseNum(n, base) ==
    LET digit(d) == IF d <= 9 THEN Digits[d + 1] ELSE UpperCase[d - 9]
    IN IF n < base THEN << digit(n) >>
       ELSE Str_parseNum(n \div base, base) \o << digit(n % base) >>

\* the Param_Value that Param_next makes of the trimmed text paramStr: the
\* switch on its first character, each parse function, and Param_parseUnknown
\* when none returned Param_Ok
Param_value(paramStr) ==
    LET c1 == IF paramStr = <<>> THEN NUL ELSE paramStr[1]
        c2 == IF Len(paramStr) < 2 THEN NUL ELSE paramStr[2]
        low == Str_lowerCase(paramStr)
        unknown(str) == [Type |-> "Unknown", v |-> str]
        prefixed == c1 = "0" /\ c2 \in {"b", "B", "x", "X"}
        base == IF c2 \in {"b", "B"} THEN 2 ELSE 16
        u == Str_convertUNum(SubSeq(paramStr, 3, Len(paramStr)), base)
        neg == c1 = "-"
        n == Str_convertUNum(IF neg THEN SubSeq(paramStr, 2, Len(paramStr)) ELSE paramStr, 10)
    IN IF prefixed /\ u >= 0
       THEN [Type |-> IF base = 2 THEN "NumberBinary" ELSE "NumberHex", v |-> u]
       ELSE IF IsDigit(c1) \/ neg
       THEN IF \E i \in DOMAIN paramStr : paramStr[i] = "."
            THEN unknown(paramStr)
            ELSE IF n >= 0 THEN [Type |-> "Number", v |-> IF neg THEN -n ELSE n]
            ELSE unknown(paramStr)
       ELSE IF c1 \in {"t", "f", "T", "F"}
       THEN IF low = <<"t", "r", "u", "e">> THEN [Type |-> "Boolean", v |-> 1]
            ELSE IF low = <<"f", "a", "l", "s", "e">> THEN [Type |-> "Boolean", v |-> 0]
            ELSE unknown(low)
       ELSE IF c1 \in {"o", "O"}
       THEN IF low = <<"o", "n">> THEN [Type |-> "StateKey", v |-> 1]
            ELSE IF low = <<"o", "f", "f">> THEN [Type |-> "StateKey", v |-> 0]
            ELSE unknown(low)
       ELSE IF c1 \in {"l", "h", "L", "H"}
       THEN IF low = <<"h", "i", "g", "h">> THEN [Type |-> "State", v |-> 1]
            ELSE IF low = <<"l", "o", "w">> THEN [Type |-> "State", v |-> 0]
            ELSE unknown(low)
       ELSE IF c1 \in {"n", "N"}
       THEN IF low = <<"n", "u", "l", "l">> THEN [Type |-> "Null", v |-> low]
            ELSE unknown(low)
       ELSE unknown(paramStr)

\* the text Param_valueToStr writes for the value
Param_valueToStr(value) ==
    CASE value.Type = "Number" ->
            IF value.v < 0 THEN << "-" >> \o Str_parseNum(-value.v, 10)
            ELSE Str_parseNum(value.v, 10)
      [] value.Type = "NumberHex" -> << "0", "x" >> \o Str_parseNum(value.v, 16)
      [] value.Type = "NumberBinary" -> << "0", "b" >> \o Str_parseNum(value.v, 2)
      [] value.Type = "State" ->
            IF value.v # 0 THEN << "H", "i", "g", "h" >> ELSE << "L", "o", "w" >>
      [] value.Type = "StateKey" ->
            IF value.v # 0 THEN << "O", "n" >> ELSE << "O", "f", "f" >>
      [] value.Type = "Boolean" ->
            IF value.v # 0 THEN << "T", "r", "u", "e" >> ELSE << "F", "a", "l", "s", "e" >>
      [] value.Type = "Null" -> << "N", "u", "l", "l" >>
      [] value.Type = "Unknown" -> value.v

\* the values of the successive Param_next calls on the buffer s from the
\* cursor cur, each as Param_valueToStr writes it, joined with the separator
RECURSIVE Param_toStr(_, _)
Param_toStr(s, cur) ==
    LET r == Param_next(s, cur)
        rest == Param_next(s, r.cursor)
    IN IF ~r.some THEN <<>>
       ELSE Param_valueToStr(Param_value(r.Value))
            \o (IF rest.some THEN << "," >> \o Param_toStr(s, r.cursor) ELSE <<>>)

\* a parameter loop without a limit
ParamsUnbounded(paramCount) == TRUE

\* urcInfo->paramCount < MAX_URC_PARAMS
ParamsFit(paramCount) == paramCount < MAX_URC_PARAMS

\* while (Param_next(&cursor, &param) && urcInfo->paramCount < MAX_URC_PARAMS)
RECURSIVE ParamLoop(_, _, _)
ParamLoop(s, cur, params) ==
    LET r == Param_next(s, cur)
    IN IF r.some /\ ParamsFit(Len(params))
       THEN ParamLoop(s, r.cursor, Append(params, r.Value))
       ELSE params

\* RIL_ParseURC: detected, the tag of the matching registry entry, and the
\* parameters taken from what follows the first ':'
RIL_ParseURC(line) ==
    IF ~_lineIsURC(line)
    THEN [detected |-> FALSE, urcType |-> "none", paramCount |-> 0, params |-> <<>>]
    ELSE LET m == Str_findStrs(line, URC_STRINGS)
             colons == {i \in 1..Len(line) : line[i] = ":"}
         IN IF m.idx = 0
            THEN [detected |-> FALSE, urcType |-> "none", paramCount |-> 0, params |-> <<>>]
            ELSE IF colons = {}
            THEN [detected |-> TRUE, urcType |-> URC_NAMES[m.idx],
                  paramCount |-> 0, params |-> <<>>]
            ELSE LET paramStart == (CHOOSE i \in colons : \A j \in colons : i <= j) + 1
                     paramLen == Min(Len(line) - paramStart + 1, RIL_UTIL_PARAM_MAX_SIZE - 1)
                     paramBuffer == SubSeq(line, paramStart, paramStart + paramLen - 1)
                     params == ParamLoop(paramBuffer, [Ptr |-> 1, Len |-> paramLen], <<>>)
                 IN [detected |-> TRUE, urcType |-> URC_NAMES[m.idx],
                     paramCount |-> Len(params), params |-> params]

\* -------------------------------------------------------------------- state
VARIABLES
    initialized,     \* rilCtx.initialized
    state,           \* rilCtx.state
    operationMode,   \* rilCtx.operationMode
    expectedBytes,   \* rilCtx.expectedBytes
    error,           \* rilCtx.error
    urcIndicationCallback,  \* rilCtx.urcIndicationCallback # NULL
    powerCommandCallback,   \* rilCtx.powerCommandCallback # NULL
    mutex,           \* rilCtx.mutex (used when RIL_USE_OS = 1)
    rx,              \* rilCtx.stream.Input: bytes received and not yet read
    txPending,       \* rilCtx.stream.Output: bytes written and not yet sent
    wire,            \* what was written to the modem, in order
    modem,           \* the modem: the command it executes, what it emitted
    stack,           \* per thread, the calls in progress, innermost last
    returned,        \* the return the last step made, if it made one
    urcLog,          \* the events delivered to the URC subscriber
    calls,           \* commands issued so far
    host,            \* the board: power commands requested, init results reported,
                     \* and how the modem behaves since it was last powered
    lib              \* the application's use of the codec and parser libraries: the
                     \* call made last, its input and what it gave; and the wait
                     \* of a command against the tick counter at its full width

vars == <<initialized, state, operationMode, expectedBytes, error,
          urcIndicationCallback, powerCommandCallback, mutex, rx, txPending, wire, modem,
          stack, returned, urcLog, calls, host, lib>>

\* the RIL context a step works on
Ctx ==
    [state |-> state, operationMode |-> operationMode,
     expectedBytes |-> expectedBytes, error |-> error, rx |-> rx, mutex |-> mutex]

\* ------------------------------------------------------------ what is sent
AT == <<"A", "T">>
ATI == <<"A", "T", "I">>
L_CSQ == <<"+", "C", "S", "Q", ":", " ", "1">>
L_CME30 == <<"+", "C", "M", "E", " ", "E", "R", "R", "O", "R", ":", " ", "3", "0">>
L_CMS500 == <<"+", "C", "M", "S", " ", "E", "R", "R", "O", "R", ":", " ", "5", "0", "0">>
L_CMTI == <<"+", "C", "M", "T", "I", ":", " ", "1">>
L_PROMPT == <<">", " ">>
L_CRING == <<"+", "C", "R", "I", "N", "G", ":", " ", "V", "O", "I", "C", "E">>
L_ERR == <<"E", "R", "R">>

\* the calls the threads make. Thread 1 is an application task: it sends a
\* command without callback, a prompted command and a command with an adapter
\* callback, and a payload. Thread 2 is the task that polls
\* RIL_ServiceRoutine; it sends commands from the URC callback only.
PROBE == [cmd |-> AT, prompt |-> FALSE, cbk |-> "ok", timeOut |-> 500]

Requests(t) ==
    IF t = 1
    THEN { [cmd |-> ATI, prompt |-> FALSE, cbk |-> "NULL", timeOut |-> 0],
           [cmd |-> ATI, prompt |-> TRUE, cbk |-> "user", timeOut |-> 0],
           [cmd |-> ATI, prompt |-> FALSE, cbk |-> "user", timeOut |-> 500] }
    ELSE {}

\* the command a callback issues when it nests one, the probe of
\* RIL_IsModulePowered
NestedRequest == PROBE

\* payload length, callback and timeout of the RIL_SendBinaryData calls
BinaryRequests(t) ==
    IF t = 1 THEN { [dataLen |-> 3, cbk |-> "user", timeOut |-> 0] } ELSE {}

\* the threads that poll RIL_ServiceRoutine
Pollers == {2}

\* what the modem answers
InfoLines == {L_CSQ}
FinalLines == {L_OK, L_ERROR, L_CME30, L_CMS500}
UrcLines == {L_CMTI}

\* the byte count an adapter announces with RIL_SetOperationBinary, and the
\* code it reports with RIL_AT_SetErrCode
BinSize == 2
AdapterErrCode == 5

CbRets == {"CONTINUE", "SUCCESS", "FAILED"}

\* ------------------------------------------------------------------ frames
\* a frame read from the stream: its text, and from the mark of its first
\* byte what the modem sent it as
LineRec(line, tg, bin) == [l |-> line, src |-> tg.src, k |-> tg.k, n |-> tg.n, bin |-> bin]
NoLine == [l |-> <<>>, src |-> "none", k |-> 0, n |-> 0, bin |-> FALSE]

NewFrame(fn, pc) ==
    [fn |-> fn, pc |-> pc, cmd |-> <<>>, prompt |-> FALSE, cbk |-> "NULL",
     timeOut |-> 0, deadline |-> 0, echoSeen |-> FALSE, echoSrc |-> "none",
     lines |-> <<>>, id |-> 0, dataLen |-> 0, sent |-> 0, t0 |-> 0,
     t1 |-> 0, waiting |-> FALSE, lastPending |-> 0, binary |-> FALSE,
     cbRet |-> "none", on |-> NoLine, connectCount |-> 0, retryCount |-> 0, moduleRestarted |-> FALSE,
     tryCount |-> 0, step |-> 0, got |-> "none"]

Top(t) == stack[t][Len(stack[t])]
Idle(t) == stack[t] = <<>>
Depth(t) == Cardinality({i \in DOMAIN stack[t] : stack[t][i].fn \in {"send", "sendbin"}})

\* stk with its top frame replaced
WithTop(stk, f) == [stk EXCEPT ![Len(stk)] = f]

\* stk after its top frame returned: the callback below it, if any, resumes
PopTo(stk) ==
    LET s == SubSeq(stk, 1, Len(stk) - 1)
    IN IF s = <<>> THEN s ELSE [s EXCEPT ![Len(s)].pc = "ret"]

\* stk, whose top frame made a call, with the status r the call returned,
\* kept where the caller reads it (RIL_initialize, RIL_deInitialize and the
\* two-phase adapters)
Got(stk, r) ==
    IF stk # <<>> /\ stk[Len(stk)].fn \in {"init", "deinit", "adapter"}
    THEN [stk EXCEPT ![Len(stk)].got = r]
    ELSE stk


\* ------------------------------------------------------------ tick source
\* _RIL_GetCurrentTick(): the instants a call stores are kept relative to the
\* present, so the present is 0 and d ms passing moves each of them d ms back
tick == 0
\* _RIL_GetCurrentTick() + timeOut
TickAdd(now, ms) == now + ms
\* a deadline test that never fails
NeverExpires(now, deadline) == TRUE

\* _RIL_GetCurrentTick() < absoluteTimeout
TickBefore(now, deadline) == now < deadline

\* --------------------------------------------------------- access helpers
CanLock(m, t) == (RIL_USE_OS = 1 /\ m.created) => m.owner \in {0, t}

\* m.calls[t] counts the calls of _RIL_Lock that thread t made and has not
\* answered with a call of _RIL_Unlock; the calls are made whether or not the
\* build gives them a body
_RIL_Lock(m, t) ==
    IF RIL_USE_OS = 1 /\ m.created
    THEN [m EXCEPT !.owner = t, !.count = @ + 1, !.calls[t] = @ + 1]
    ELSE [m EXCEPT !.calls[t] = @ + 1]

_RIL_Unlock(m, t) ==
    IF RIL_USE_OS = 1 /\ m.created
    THEN [m EXCEPT !.count = @ - 1, !.owner = IF m.count = 1 THEN 0 ELSE t,
                   !.calls[t] = @ - 1]
    ELSE [m EXCEPT !.calls[t] = @ - 1]

RIL_SetOperationNormal(c) == [c EXCEPT !.operationMode = "Normal", !.expectedBytes = 0]

RIL_SetOperationBinary(c, n) == [c EXCEPT !.operationMode = "Binary", !.expectedBytes = n]

RIL_AT_SetErrCode(c, code) == [c EXCEPT !.error = code]

\* a _RIL_ERROR_SET that stores nothing
ErrorCodeDropped(c, code) == c

\* _RIL_ERROR_SET(errCode)
_RIL_ERROR_SET(c, code) == [c EXCEPT !.error = code]

\* a release that leaves the lock taken
ReleaseKeepsLock(c, t, resetOperationMode) ==
    LET c1 == [c EXCEPT !.state = "READY"]
    IN IF resetOperationMode THEN RIL_SetOperationNormal(c1) ELSE c1

_RIL_ReleaseAccess(c, t, resetOperationMode) ==
    LET c1 == [c EXCEPT !.state = "READY"]
        c2 == IF resetOperationMode THEN RIL_SetOperationNormal(c1) ELSE c1
    IN [c2 EXCEPT !.mutex = _RIL_Unlock(@, t)]

\* ------------------------------------------------- outcome of an engine step
\* An engine step of thread t yields the new context c, the new stack stk of
\* the thread, the return it made if it made one, and whether a call is to be
\* counted.
NoRet == [t |-> 0, fn |-> "none", res |-> "none", cbk |-> "none", lines |-> <<>>,
          id |-> 0, echoSrc |-> "none", depth |-> 0, timeOut |-> 0,
          cbRet |-> "none", binary |-> FALSE, on |-> NoLine]

RetOf(t, stk, r) ==
    LET f == stk[Len(stk)]
    IN [t |-> t, fn |-> f.fn, res |-> r, cbk |-> f.cbk, lines |-> f.lines,
        id |-> f.id, echoSrc |-> f.echoSrc, depth |-> Len(stk),
        timeOut |-> f.timeOut, cbRet |-> f.cbRet, binary |-> f.binary, on |-> f.on]

Keep(c, t, stk) == [c |-> c, stk |-> stk, ret |-> NoRet, nest |-> FALSE]

\* the command on top of stk returns r without releasing access
Leave(c, t, stk, r) ==
    [c |-> c, stk |-> Got(PopTo(stk), r), ret |-> RetOf(t, stk, r), nest |-> FALSE]

\* _RIL_ReleaseAccess(reset); return r
Finish(c, t, stk, r, reset) == Leave(_RIL_ReleaseAccess(c, t, reset), t, stk, r)

\* no library call made yet
NoCall == [op |-> "none"]

Apply(t, o) ==
    /\ state' = o.c.state
    /\ operationMode' = o.c.operationMode
    /\ expectedBytes' = o.c.expectedBytes
    /\ error' = o.c.error
    /\ rx' = o.c.rx
    /\ mutex' = o.c.mutex
    /\ stack' = [stack EXCEPT ![t] = o.stk]
    /\ returned' = o.ret
    /\ calls' = IF o.nest THEN calls + 1 ELSE calls
    /\ lib' = lib

\* ---------------------------------------------------------------- callbacks
\* _RIL_SendATCmd after its callback returned ret for a line (ril.c:561-574)
AfterLineCb(c, t, stk, ret) ==
    IF ret = "CONTINUE"
    THEN Keep(c, t, WithTop(stk, [stk[Len(stk)] EXCEPT !.pc = "loop"]))
    ELSE Finish(c, t, stk, "SUCCESS", TRUE)

\* _RIL_SendATCmd after its callback returned ret for a binary payload
AfterBinaryCb(c, t, stk, ret) ==
    IF ret = "CONTINUE"
    THEN Keep(RIL_SetOperationNormal(c), t, WithTop(stk, [stk[Len(stk)] EXCEPT !.pc = "loop"]))
    ELSE IF ret = "SUCCESS" THEN Finish(c, t, stk, "SUCCESS", TRUE)
    ELSE Finish(c, t, stk, "FAILED", TRUE)

\* _RIL_WaitForResponse after its callback returned ret, and the release and
\* return of RIL_SendBinaryData that follow when it is done
AfterWaitCb(c, t, stk, ret) ==
    IF ret = "CONTINUE"
    THEN Keep(c, t, WithTop(stk, [stk[Len(stk)] EXCEPT !.pc = "wait"]))
    ELSE Finish(c, t, stk, "SUCCESS", FALSE)

AfterCb(c, t, stk, ret) ==
    LET f == stk[Len(stk)]
        stk1 == WithTop(stk, [f EXCEPT !.cbRet = ret])
    IN IF f.fn = "sendbin" THEN AfterWaitCb(c, t, stk1, ret)
       ELSE IF f.binary THEN AfterBinaryCb(c, t, stk1, ret)
       ELSE AfterLineCb(c, t, stk1, ret)

\* the frame of a callback of kind cbfn that is about to issue a command
CallingFrame(cbfn) == [NewFrame(cbfn, "call") EXCEPT !.cbk = "none"]

\* what a callback may do with the frame it is given: its return value, and
\* the engine API it calls before returning
cb_copy(connectCount, line, len) ==
    IF connectCount = 0 /\ StrncmpEq(line, CONNECT, 7)
    THEN LET s == SscanfU(line, 1, CONNECT_FMT, 1)
         IN {[eff |-> "connect", ret |-> "CONTINUE",
              n |-> IF s.ret = 1 THEN s.val ELSE connectCount]}
    ELSE IF len < 2
    THEN {[eff |-> "none", ret |-> r] : r \in {"SUCCESS", "CONTINUE"}}
    ELSE IF StrncmpEq(SubSeq(line, len - 1, Len(line)), L_OK, 2)
    THEN {[eff |-> "none", ret |-> "SUCCESS"]}
    ELSE {[eff |-> "none", ret |-> "CONTINUE"]}

\* cb_QFUPL(line, len, NULL) of ril_file.c
cb_QFUPL(line, len) == IF StrncmpEq(line, L_OK, len) THEN "SUCCESS" ELSE "CONTINUE"

\* ATHandler_QMTPUBEX of ril_mqtt_client.c
QMTPUBEX_TAG == <<"+", "Q", "M", "T", "P", "U", "B", "E", "X", ":">>
ATHandler_QMTPUBEX(line, len) ==
    IF StrncmpEq(line, QMTPUBEX_TAG, 10) THEN "SUCCESS" ELSE "CONTINUE"

\* strstr(s + from - 1, p) of the C library: the index in s of the first
\* occurrence of p at or after from, 0 (NULL) when there is none
Strstr(s, p, from) ==
    LET hits == {i \in from..(Len(s) - Len(p) + 1) : \A j \in 1..Len(p) : s[i + j - 1] = p[j]}
    IN IF hits = {} THEN 0 ELSE CHOOSE i \in hits : \A j \in hits : i <= j

\* GetStorageType of ril_sms.c: strncpy of SMS_TYPE_STR_LEN bytes from pStr,
\* compared with "SM", "ME" and "MT" in their quotes
SMS_TYPE_STR_LEN == 4
GetStorageType(s, from) ==
    [i \in 1..SMS_TYPE_STR_LEN |-> IF from + i - 1 <= Len(s) THEN s[from + i - 1] ELSE NUL]
        \in {<<"\"", "S", "M", "\"">>, <<"\"", "M", "E", "\"">>, <<"\"", "M", "T", "\"">>}

\* HdlrGetStorageInfo of ril_sms.c returns pLine rather than NULL: the key,
\* a storage type after it, and the three commas that end <mem1>, <used1>
\* and <total1>
CPMS_KEY_STR == <<"+", "C", "P", "M", "S", ":", " ">>
HdlrGetStorageInfo(pLine, uLen) ==
    LET key == Strstr(pLine, CPMS_KEY_STR, 1)
        pHead == key + Len(CPMS_KEY_STR)
        c1 == Strstr(pLine, <<",">>, pHead)
        c2 == Strstr(pLine, <<",">>, c1 + 1)
        c3 == Strstr(pLine, <<",">>, c2 + 1)
    IN /\ uLen # 0
       /\ key # 0
       /\ GetStorageType(pLine, pHead)
       /\ c1 # 0 /\ c2 # 0 /\ c3 # 0

\* SMS_HDLR_CHECK_ERROR of ril_sms.c returns RIL_ATRSP_SUCCESS from the
\* handler: NULL != strncmp(pLine, "OK", uLen), strncmp being 0 on equality
SMS_HDLR_CHECK_ERROR(pLine, uLen) == ~StrncmpEq(pLine, L_OK, uLen)

\* SMS_CMD_GeneralHandler of ril_sms.c with uHdlrType HDLR_TYPE_CPMS_READ_CMD
SMS_CMD_GeneralHandler(pLine, uLen) ==
    IF uLen = 0 THEN "INVALID_PARAM"
    ELSE IF HdlrGetStorageInfo(pLine, uLen) THEN "CONTINUE"
    ELSE IF SMS_HDLR_CHECK_ERROR(pLine, uLen) THEN "SUCCESS"
    ELSE "CONTINUE"

CbChoices(cbk, line, len, t) ==
    IF cbk = "ok" THEN {[eff |-> "none", ret |-> okRespCallback(line, len)]}
    ELSE IF cbk = "SMS_CMD_GeneralHandler"
    THEN {[eff |-> "none", ret |-> SMS_CMD_GeneralHandler(line, len)]}
    ELSE IF cbk = "ok" THEN {[eff |-> "none", ret |-> okRespCallback(line, len)]}
    ELSE IF cbk = "cb_QFUPL" THEN {[eff |-> "none", ret |-> cb_QFUPL(line, len)]}
    ELSE IF cbk = "ATHandler_QMTPUBEX"
    THEN {[eff |-> "none", ret |-> ATHandler_QMTPUBEX(line, len)]}
    ELSE IF cbk = "copy" THEN cb_copy(Top(t).connectCount, line, len)
    ELSE {[eff |-> "none", ret |-> r] : r \in CbRets}
         \cup {[eff |-> "binary", ret |-> r] : r \in {"CONTINUE", "SUCCESS"}}
         \cup {[eff |-> "errcode", ret |-> "FAILED"]}
         \cup (IF Depth(t) < MaxDepth /\ calls < MaxCalls
               THEN {[eff |-> "nested", ret |-> "CONTINUE"]} ELSE {})

\* atRsp_callBack(lineCache, len, userData) and what follows its return
InvokeCb(c, t, stk, ch) ==
    IF ch.eff = "nested"
    THEN [c |-> c,
          stk |-> WithTop(stk, [stk[Len(stk)] EXCEPT !.pc = "incb"]) \o << CallingFrame("cb") >>,
          ret |-> NoRet, nest |-> TRUE]
    ELSE IF ch.eff = "binary" THEN AfterCb(RIL_SetOperationBinary(c, BinSize), t, stk, ch.ret)
    ELSE IF ch.eff = "connect"
    THEN AfterCb(RIL_SetOperationBinary(c, ch.n % UINT16), t,
                 WithTop(stk, [stk[Len(stk)] EXCEPT !.connectCount = ch.n]), ch.ret)
    ELSE IF ch.eff = "errcode" THEN AfterCb(RIL_AT_SetErrCode(c, AdapterErrCode), t, stk, ch.ret)
    ELSE AfterCb(c, t, stk, ch.ret)

\* const char* cmdWithCRLF = lineCache: the pointer the echo is compared with
\* names the line buffer itself, which holds the frame just read
cmdWithCRLF(atCmd, lineCache) == lineCache

\* the frame of n bytes at the head of the stream without its CRLF, and with
\* one trailing CR removed when strip is set
FrameLine(n, strip) ==
    LET raw == SubSeq(Bytes(rx), 1, n - CRLFLen)
    IN IF strip /\ raw[Len(raw)] = CR THEN SubSeq(raw, 1, Len(raw) - 1) ELSE raw

\* ------------------------------------------------------------ the engine
\* what IStream_write + OStream_flush of n bytes do to the TX stream: nothing
\* fits when the stream lacks n free bytes; flush reports InTransmit when a
\* transmission is already under way
StreamWrite(n) ==
    IF n > RIL_TX_STREAM_SIZE - txPending THEN "NoSpace"
    ELSE IF txPending > 0 THEN "InTransmit"
    ELSE "Ok"

\* _RIL_AcquireAccess: reset the error, lock, refuse when uninitialized,
\* else state = BUSY
_RIL_AcquireAccess(c, t) ==
    LET c0 == [c EXCEPT !.error = 0]
    IN IF ~initialized
       THEN [ok |-> FALSE, c |-> [c0 EXCEPT !.mutex = _RIL_Unlock(_RIL_Lock(c.mutex, t), t)]]
       ELSE [ok |-> TRUE, c |-> [c0 EXCEPT !.mutex = _RIL_Lock(c.mutex, t), !.state = "BUSY"]]

\* _RIL_SendATCmd from its entry to the first turn of its read loop, run by
\* the frame f on top of stk: acquisition, default timeout, deadline, the
\* command and CRLF written and flushed
SendEntry(t, stk, counted) ==
    LET f == stk[Len(stk)]
        a == _RIL_AcquireAccess(Ctx, t)
        timeOut == IF f.timeOut = 0 THEN DefaultTimeout ELSE f.timeOut
        w == StreamWrite(Len(f.cmd) + CRLFLen)
        sent == a.ok /\ w # "NoSpace"
        f1 == [f EXCEPT !.pc = "loop", !.deadline = TickAdd(tick, timeOut),
                        !.id = Len(wire) + 1]
    IN /\ CanLock(mutex, t)
       /\ wire' = IF sent
                  THEN Append(wire, [kind |-> "cmd", cmd |-> f.cmd, prompt |-> f.prompt,
                                     len |-> Len(f.cmd) + CRLFLen, by |-> t])
                  ELSE wire
       /\ txPending' = IF sent THEN txPending + Len(f.cmd) + CRLFLen ELSE txPending
       /\ \E o \in {[IF ~a.ok THEN Leave(a.c, t, stk, "UNINITIALIZED")
                     ELSE IF w # "Ok" THEN Finish(a.c, t, WithTop(stk, f1), "FAILED", TRUE)
                     ELSE Keep(a.c, t, WithTop(stk, f1))
                    EXCEPT !.nest = counted]} : Apply(t, o)

SendFrame(rq) ==
    [NewFrame("send", "lock") EXCEPT !.cmd = rq.cmd, !.prompt = rq.prompt,
        !.cbk = rq.cbk, !.timeOut = rq.timeOut]

\* a thread calls RIL_SendATCmd / RIL_SendATCmdWithPrompt
CallSend(t, rq) ==
    /\ Idle(t)
    /\ calls < MaxCalls
    /\ SendEntry(t, << SendFrame(rq) >>, TRUE)
    /\ UNCHANGED <<initialized, urcIndicationCallback, powerCommandCallback, host, modem, urcLog>>

\* a callback calls RIL_SendATCmd: the frames of the callback and of its
\* command go on the stack, and the command runs up to its read loop
NestedSend(t) ==
    /\ ~Idle(t)
    /\ Top(t).fn \in {"cb", "urccb"} /\ Top(t).pc = "call"
    /\ SendEntry(t, WithTop(stack[t], [Top(t) EXCEPT !.pc = "nested"])
                    \o << SendFrame(NestedRequest) >>, FALSE)
    /\ UNCHANGED <<initialized, urcIndicationCallback, powerCommandCallback, host, modem, urcLog>>

\* a thread calls RIL_SendBinaryData: acquisition, default timeout, deadline
CallSendBinary(t, rq) ==
    /\ Idle(t)
    /\ calls < MaxCalls
    /\ CanLock(mutex, t)
    /\ LET a == _RIL_AcquireAccess(Ctx, t)
           timeOut == IF rq.timeOut = 0 THEN DefaultBinaryTimeout ELSE rq.timeOut
           f1 == [NewFrame("sendbin", "chunk") EXCEPT !.dataLen = rq.dataLen,
                      !.cbk = rq.cbk, !.timeOut = rq.timeOut,
                      !.deadline = TickAdd(tick, timeOut), !.echoSeen = TRUE]
       IN Apply(t, [IF ~a.ok THEN Leave(a.c, t, << f1 >>, "UNINITIALIZED")
                    ELSE Keep(a.c, t, << f1 >>)
                   EXCEPT !.nest = TRUE])
    /\ UNCHANGED <<initialized, urcIndicationCallback, powerCommandCallback, host, txPending, wire, modem, urcLog>>

\* what a command loop does with the frame line it read past the echo, the
\* stream already advanced in c1: error detection, then the callback. reset
\* is the flag of the release that follows.
LineOutcomes(c1, t, stk, line, rec, reset) ==
    LET f == stk[Len(stk)]
        len == Len(line)
        c2 == _RIL_ERROR_SET(c1, 0)
    IN UNION { LET e == _lineIsError(line, len, g)
               IN IF e.ret > 0
                  THEN {Finish(_RIL_ERROR_SET(c2, e.code), t,
                               WithTop(stk, [f EXCEPT !.on = rec]), "FAILED", reset)}
                  ELSE IF f.cbk = "NULL"
                  THEN {Finish(c2, t, stk, "SUCCESS", reset)}
                  ELSE {InvokeCb(c2, t, WithTop(stk,
                             [f EXCEPT !.lines = Append(@, rec), !.binary = FALSE]), ch)
                        : ch \in CbChoices(f.cbk, line, len, t)}
             : g \in Garbage }

\* the length of the frame at the head of the RX stream, 0 if none is complete
HeadLen == IStream_readBytesUntilPattern(rx, CRLF, RIL_LINE_LEN)

\* the outcomes of one turn of the read loop of _RIL_SendATCmd that does
\* something, pl and n being what the reads up to the prompt and up to CRLF
\* return: the deadline has passed, or the prompt, a frame or the binary
\* payload is there
SendLoopGiven(t, pl, n) ==
    LET f == Top(t)
        stk == stack[t]
        c == Ctx
        c1 == [c EXCEPT !.rx = Drop(rx, n)]
    IN IF ~TickBefore(tick, f.deadline)
       THEN {Finish(c, t, stk, "TIMEOUT", TRUE)}
       ELSE IF pl > 0
       THEN {Finish([c EXCEPT !.rx = Drop(rx, pl)], t, stk, "SUCCESS", TRUE)}
       ELSE IF operationMode = "Normal"
       THEN IF n = 0 THEN {}
            ELSE IF n <= CRLFLen THEN {Keep(c1, t, stk)}
            ELSE UNION {
                   IF ~f.echoSeen /\ Str_compareFix(line, cmdWithCRLF(f.cmd, line), Len(line)) = 0
                   THEN {Keep(c1, t, WithTop(stk,
                             [f EXCEPT !.echoSeen = TRUE, !.echoSrc = rx[1].src]))}
                   ELSE IF ~f.echoSeen
                   THEN {Finish(c1, t, stk, "SUCCESS", TRUE)}
                   ELSE LineOutcomes(c1, t, stk, line, LineRec(line, rx[1], FALSE), TRUE)
                   : line \in {FrameLine(n, TRUE)} }
       ELSE IF operationMode = "Binary" /\ expectedBytes > 0 /\ Len(rx) >= expectedBytes
       THEN LET data == SubSeq(Bytes(rx), 1, expectedBytes)
                c2 == [c EXCEPT !.rx = Drop(rx, expectedBytes)]
                rec == LineRec(data, rx[1], TRUE)
            IN IF f.cbk = "NULL"
               THEN {Finish(c2, t, stk, "SUCCESS", TRUE)}
               ELSE {InvokeCb(c2, t, WithTop(stk,
                          [f EXCEPT !.lines = Append(@, rec), !.binary = TRUE]), ch)
                     : ch \in CbChoices(f.cbk, data, expectedBytes, t)}
       ELSE {}

SendLoopOutcomes(t) ==
    UNION { SendLoopGiven(t, pl, n) :
              pl \in {IF Top(t).prompt THEN IStream_readBytesUntil(rx, ">", RIL_LINE_LEN) ELSE 0},
              n \in {HeadLen} }

\* one turn of the read loop of _RIL_SendATCmd
SendLoop(t) ==
    /\ ~Idle(t)
    /\ Top(t).fn = "send" /\ Top(t).pc = "loop"
    /\ \E o \in SendLoopOutcomes(t) : Apply(t, o)
    /\ UNCHANGED <<initialized, urcIndicationCallback, powerCommandCallback, host, txPending, wire, modem, urcLog>>

\* one turn of the loop of _RIL_SendChunkedData, and past its end the first
\* reads of _RIL_WaitForTransmitComplete
BinChunk(t) ==
    /\ ~Idle(t)
    /\ Top(t).fn = "sendbin" /\ Top(t).pc = "chunk"
    /\ LET f == Top(t)
           stk == stack[t]
           availableSpace == RIL_TX_STREAM_SIZE - txPending
           chunkSize == Min(f.dataLen - f.sent, availableSpace)
       IN IF f.sent >= f.dataLen
          THEN /\ Apply(t, Keep(Ctx, t, WithTop(stk,
                        [f EXCEPT !.pc = "drain", !.t0 = tick, !.t1 = tick, !.waiting = FALSE,
                                  !.lastPending = txPending])))
               /\ UNCHANGED <<txPending, wire>>
          ELSE IF chunkSize = 0
          THEN /\ UNCHANGED <<txPending, wire>>
               /\ IF ~f.waiting
                  THEN Apply(t, Keep(Ctx, t, WithTop(stk, [f EXCEPT !.t0 = tick, !.waiting = TRUE])))
                  ELSE /\ tick - f.t0 > SpaceWaitMs
                       /\ Apply(t, Finish(Ctx, t, stk, "FAILED", FALSE))
          ELSE /\ txPending' = txPending + chunkSize
               /\ wire' = Append(wire, [kind |-> "bin", cmd |-> <<>>, prompt |-> FALSE,
                                        len |-> chunkSize, by |-> t])
               /\ Apply(t, Keep(Ctx, t, WithTop(stk,
                        [f EXCEPT !.sent = @ + chunkSize, !.t0 = 0, !.waiting = FALSE,
                                  !.id = IF @ = 0 THEN Len(wire) + 1 ELSE @])))
    /\ UNCHANGED <<initialized, urcIndicationCallback, powerCommandCallback, host, modem, urcLog>>

\* one turn of the loop of _RIL_WaitForTransmitComplete that does something;
\* the count of turns without progress, 10 ms apart, is read off the tick
BinDrain(t) ==
    /\ ~Idle(t)
    /\ Top(t).fn = "sendbin" /\ Top(t).pc = "drain"
    /\ LET f == Top(t)
           stk == stack[t]
           flushTimeout == (f.dataLen \div 10) + FlushBaseMs
       IN IF txPending = 0
          THEN Apply(t, Keep(Ctx, t, WithTop(stk,
                   [f EXCEPT !.pc = "wait", !.t0 = 0, !.t1 = 0, !.lastPending = 0])))
          ELSE IF tick - f.t0 > flushTimeout
          THEN Apply(t, Finish(Ctx, t, stk, "FAILED", FALSE))
          ELSE IF txPending # f.lastPending
          THEN Apply(t, Keep(Ctx, t, WithTop(stk,
                   [f EXCEPT !.lastPending = txPending, !.t1 = tick])))
          ELSE /\ tick - f.t1 >= StuckLimit * ProgressCheckInterval
               /\ Apply(t, Finish(Ctx, t, stk, "FAILED", FALSE))
    /\ UNCHANGED <<initialized, urcIndicationCallback, powerCommandCallback, host, txPending, wire, modem, urcLog>>

\* the outcomes of one turn of the loop of _RIL_WaitForResponse that does
\* something, n being what the read up to CRLF returns, with the release and
\* return of RIL_SendBinaryData when the wait is over
BinWaitGiven(t, n) ==
    LET f == Top(t)
        stk == stack[t]
        c == Ctx
        c1 == [c EXCEPT !.rx = Drop(rx, n)]
    IN IF ~TickBefore(tick, f.deadline)
       THEN {Finish(c, t, stk, "TIMEOUT", FALSE)}
       ELSE IF n = 0 THEN {}
       ELSE IF n <= CRLFLen THEN {Keep(c1, t, stk)}
       ELSE UNION { LineOutcomes(c1, t, stk, line, LineRec(line, rx[1], FALSE), FALSE)
                    : line \in {FrameLine(n, TRUE)} }

BinWaitOutcomes(t) == UNION { BinWaitGiven(t, n) : n \in {HeadLen} }

\* one turn of the loop of _RIL_WaitForResponse
BinWait(t) ==
    /\ ~Idle(t)
    /\ Top(t).fn = "sendbin" /\ Top(t).pc = "wait"
    /\ \E o \in BinWaitOutcomes(t) : Apply(t, o)
    /\ UNCHANGED <<initialized, urcIndicationCallback, powerCommandCallback, host, txPending, wire, modem, urcLog>>

\* the outcomes of the return of a callback that issued a nested command
CbReturnOutcomes(t) ==
    IF Top(t).fn = "urccb" THEN {Keep(Ctx, t, <<>>)}
    ELSE {AfterCb(Ctx, t, SubSeq(stack[t], 1, Len(stack[t]) - 1), r) : r \in CbRets}

\* a callback that issued a nested command returns once that command has:
\* a response callback returns ret to the loop that called it, the URC
\* subscriber returns to RIL_ServiceRoutine, which returns
CbReturn(t) ==
    /\ ~Idle(t)
    /\ Top(t).fn \in {"cb", "urccb"} /\ Top(t).pc = "ret"
    /\ \E o \in CbReturnOutcomes(t) : Apply(t, o)
    /\ UNCHANGED <<initialized, urcIndicationCallback, powerCommandCallback, host, txPending, wire, modem, urcLog>>

\* ------------------------------------------------------- the URC dispatcher
\* the commands between _RIL_AcquireAccess and _RIL_ReleaseAccess: per thread,
\* the frames that acquired and did not return
InFlight(t) ==
    {i \in DOMAIN stack[t] :
        stack[t][i].fn \in {"send", "sendbin"} /\ stack[t][i].pc # "lock"}

InFlightIds == UNION {{stack[t][i].id : i \in InFlight(t)} : t \in Threads}

\* a thread calls RIL_ServiceRoutine and its test passes; a call whose test
\* fails returns at once and changes nothing
CallService(t) ==
    /\ Idle(t)
    /\ state = "READY" /\ Len(rx) > 0
    /\ stack' = [stack EXCEPT ![t] = << NewFrame("svc", "read") >>]
    /\ returned' = NoRet
    /\ UNCHANGED <<lib, initialized, state, operationMode, expectedBytes, error,
                   urcIndicationCallback, powerCommandCallback, host, mutex, rx, txPending, wire, modem, urcLog, calls>>

\* a read that leaves in the stream what it returned
SvcPeek(s, n) == s

\* the RX stream s once RIL_ServiceRoutine has read n bytes from it
SvcTake(s, n) == Drop(s, n)

\* the parameters Param_next holds as a pointer into the buffer it was given:
\* Param_Value.Unknown, .String and .Null
PointerTyped(token) == Param_value(token).Type \in {"Unknown", "String", "Null"}

\* char paramBuffer[RIL_UTIL_PARAM_MAX_SIZE] is an automatic object of
\* RIL_ParseURC: it lives while the function named during is RIL_ParseURC
ParamBufferLive(during) == during = "RIL_ParseURC"

\* bytes that are not the token a pointer was set to
Overwritten == <<NUL>>

\* what a reader gets through the pointers of params: the tokens while the
\* buffer lives; once it does not, the tokens or whatever took their place
SeenThrough(params, live) ==
    IF live \/ \A i \in DOMAIN params : ~PointerTyped(params[i]) THEN {params}
    ELSE {params,
          [i \in DOMAIN params |-> IF PointerTyped(params[i]) THEN Overwritten ELSE params[i]]}

\* the rest of RIL_ServiceRoutine: read a frame, parse it, notify; the
\* subscriber is called after RIL_ParseURC has returned
SvcRead(t) ==
    /\ ~Idle(t)
    /\ Top(t).fn = "svc" /\ Top(t).pc = "read"
    /\ \E n \in {IStream_readBytesUntilPattern(rx, CRLF, RIL_LINE_LEN)} :
       \E urcInfo \in {RIL_ParseURC(FrameLine(n, FALSE))} :
       LET c1 == [Ctx EXCEPT !.rx = SvcTake(rx, n)]
           line == FrameLine(n, FALSE)
           notify == n > CRLFLen /\ urcInfo.detected /\ urcIndicationCallback
           live == ParamBufferLive("urcIndicationCallback")
           ev == [urcType |-> urcInfo.urcType, paramCount |-> urcInfo.paramCount,
                  params |-> urcInfo.params, line |-> line, src |-> rx[1].src, k |-> rx[1].k,
                  n |-> rx[1].n, during |-> rx[1].k \in InFlightIds, by |-> t,
                  live |-> live, seen |-> urcInfo.params]
       IN /\ urcLog' \in IF notify
                         THEN {Append(urcLog, [ev EXCEPT !.seen = s])
                               : s \in SeenThrough(urcInfo.params, live)}
                         ELSE {urcLog}
          /\ IF notify
             THEN \E nested \in {b \in BOOLEAN : b => calls < MaxCalls} :
                     Apply(t, IF nested
                              THEN [c |-> c1,
                                    stk |-> WithTop(stack[t], [Top(t) EXCEPT !.pc = "incb"])
                                            \o << CallingFrame("urccb") >>,
                                    ret |-> NoRet, nest |-> TRUE]
                              ELSE Keep(c1, t, <<>>))
             ELSE Apply(t, Keep(c1, t, <<>>))
    /\ UNCHANGED <<initialized, urcIndicationCallback, powerCommandCallback, host, txPending, wire, modem>>

\* ---------------------------------------------------------------- the modem
Tagged(bytes, src, k, n) ==
    [i \in 1..Len(bytes) |-> [b |-> bytes[i], src |-> src, k |-> k, n |-> n]]

\* what the RX stream holds once s has come in: the buffer holds
\* RIL_RX_STREAM_SIZE bytes, the ones that do not fit are lost, the newest or
\* the oldest
Received(s) ==
    IF Len(s) <= RIL_RX_STREAM_SIZE THEN {s}
    ELSE {SubSeq(s, 1, RIL_RX_STREAM_SIZE),
          SubSeq(s, Len(s) - RIL_RX_STREAM_SIZE + 1, Len(s))}

Emit(bytes, src, k) ==
    /\ rx' \in Received(rx \o Tagged(bytes, src, k, modem.seq + 1))

\* the UART finished transmitting what the output stream held
TxCplt ==
    /\ txPending > 0
    /\ txPending' = 0
    /\ modem' = [modem EXCEPT !.heard = Len(wire)]
    /\ returned' = NoRet
    /\ UNCHANGED <<lib, initialized, state, operationMode, expectedBytes, error,
                   urcIndicationCallback, powerCommandCallback, host, mutex, rx, wire, stack,
                   urcLog, calls>>

\* the modem takes the next thing it received: a command, which it echoes,
\* or a payload
ModemEcho ==
    /\ modem.cur = 0
    /\ modem.next <= modem.heard
    /\ LET e == wire[modem.next]
       IN /\ Emit(IF e.kind = "cmd" THEN e.cmd \o <<CR>> ELSE <<>>, "echo", modem.next)
          /\ modem' = [modem EXCEPT !.cur = modem.next, !.next = @ + 1, !.seq = @ + 1,
                                    !.announced = 0, !.owed = 0]
    /\ returned' = NoRet
    /\ UNCHANGED <<lib, initialized, state, operationMode, expectedBytes, error,
                   urcIndicationCallback, powerCommandCallback, host, mutex, txPending, wire, stack, urcLog, calls>>

\* an information line of the command in execution
ModemInfo(line) ==
    /\ modem.cur > 0
    /\ modem.infos < MaxInfo
    /\ Emit(CRLF \o line \o CRLF, "info", modem.cur)
    /\ modem' = [modem EXCEPT !.infos = @ + 1, !.seq = @ + 1]
    /\ returned' = NoRet
    /\ UNCHANGED <<lib, initialized, state, operationMode, expectedBytes, error,
                   urcIndicationCallback, powerCommandCallback, host, mutex, txPending, wire, stack, urcLog, calls>>

\* the line that ends the command in execution, or its prompt; modem.ready
\* keeps the commands whose payload the modem said it is ready for, with the
\* prompt or with CONNECT
ModemFinal(line) ==
    /\ modem.cur > 0
    /\ line = L_PROMPT => wire[modem.cur].prompt
    /\ Emit(IF line = L_PROMPT THEN CRLF \o line ELSE CRLF \o line \o CRLF,
            IF line = L_PROMPT THEN "prompt" ELSE "final", modem.cur)
    /\ modem' = [modem EXCEPT !.cur = 0, !.seq = @ + 1,
                              !.ready = IF line \in {L_PROMPT, CONNECT}
                                        THEN @ \cup {modem.cur} ELSE @]
    /\ returned' = NoRet
    /\ UNCHANGED <<lib, initialized, state, operationMode, expectedBytes, error,
                   urcIndicationCallback, powerCommandCallback, host, mutex, txPending, wire, stack, urcLog, calls>>

\* an unsolicited line, at any time; it is marked with the command between
\* whose echo and final line it falls, if that command is in flight
ModemUrcUpTo(line, max) ==
    /\ modem.urcs < max
    /\ Emit(CRLF \o line \o CRLF, "urc",
            IF modem.cur \in InFlightIds THEN modem.cur ELSE 0)
    /\ modem' = [modem EXCEPT !.urcs = @ + 1, !.seq = @ + 1]
    /\ returned' = NoRet
    /\ UNCHANGED <<lib, initialized, state, operationMode, expectedBytes, error,
                   urcIndicationCallback, powerCommandCallback, host, mutex, txPending, wire, stack, urcLog, calls>>

\* the decimal digits of n
RECURSIVE Decimal(_)
Decimal(n) ==
    IF n < 10 THEN << Digits[n + 1] >>
    ELSE Decimal(n \div 10) \o << Digits[(n % 10) + 1] >>

\* the n bytes of a payload
Payload(n) == [i \in 1..n |-> Digits[(i % 10) + 1]]

\* the line CONNECT <n> of the command in execution: n bytes of payload follow
ModemConnect(n) ==
    /\ modem.cur > 0
    /\ modem.announced = 0
    /\ Emit(CRLF \o CONNECT \o <<" ">> \o Decimal(n) \o CRLF, "connect", modem.cur)
    /\ modem' = [modem EXCEPT !.announced = n, !.owed = n, !.seq = @ + 1]
    /\ returned' = NoRet
    /\ UNCHANGED <<lib, initialized, state, operationMode, expectedBytes, error,
                   urcIndicationCallback, powerCommandCallback, host, mutex, txPending, wire,
                   stack, urcLog, calls>>

\* the next m bytes of the payload announced
ModemPayload(m) ==
    /\ modem.cur > 0
    /\ m > 0 /\ m <= modem.owed
    /\ LET at == modem.announced - modem.owed
       IN Emit(SubSeq(Payload(modem.announced), at + 1, at + m), "data", modem.cur)
    /\ modem' = [modem EXCEPT !.owed = @ - m, !.seq = @ + 1]
    /\ returned' = NoRet
    /\ UNCHANGED <<lib, initialized, state, operationMode, expectedBytes, error,
                   urcIndicationCallback, powerCommandCallback, host, mutex, txPending, wire,
                   stack, urcLog, calls>>

ModemUrc(line) == ModemUrcUpTo(line, MaxUrc)

\* ----------------------------------------------------------------- the tick
\* the instants at which a waiting loop of frame f stops waiting
TimersOf(f) ==
    IF f.pc \in {"loop", "wait"} THEN {f.deadline}
    ELSE IF f.pc = "chunk" /\ f.waiting THEN {f.t0 + SpaceWaitMs + 1}
    ELSE IF f.pc = "drain"
    THEN {f.t0 + (f.dataLen \div 10) + FlushBaseMs + 1,
          f.t1 + StuckLimit * ProgressCheckInterval}
    ELSE IF f.pc = "delay" THEN {f.t0 + RestartDelayMs}
    ELSE {}

Timers == UNION {UNION {TimersOf(stack[t][i]) : i \in DOMAIN stack[t]} : t \in Threads}

\* frame f after d ms: a deadline that has passed stays passed
Later(f, d) ==
    [f EXCEPT !.deadline = IF @ > d THEN @ - d ELSE 0,
              !.t0 = IF f.pc \in {"drain", "delay"} \/ f.waiting THEN @ - d ELSE @,
              !.t1 = IF f.pc = "drain" THEN @ - d ELSE @]

\* time passes, up to the next instant that matters to a waiting loop
Tick ==
    /\ \E d \in Timers :
         /\ d > tick
         /\ \A e \in Timers : e > tick => d <= e
         /\ stack' = [t \in Threads |-> [i \in DOMAIN stack[t] |-> Later(stack[t][i], d)]]
    /\ returned' = NoRet
    /\ UNCHANGED <<lib, initialized, state, operationMode, expectedBytes, error,
                   urcIndicationCallback, powerCommandCallback, host, mutex, rx, txPending, wire, modem,
                   urcLog, calls>>

\* ----------------------------------------------------- two-phase adapters
\* RIL_SendBinaryData from its entry to the first turn of its chunk loop, run
\* by the frame f on top of stk
SendBinaryEntry(t, stk, counted) ==
    LET f == stk[Len(stk)]
        a == _RIL_AcquireAccess(Ctx, t)
        timeOut == IF f.timeOut = 0 THEN DefaultBinaryTimeout ELSE f.timeOut
        f1 == [f EXCEPT !.pc = "chunk", !.deadline = TickAdd(tick, timeOut), !.echoSeen = TRUE]
    IN /\ CanLock(mutex, t)
       /\ Apply(t, [IF ~a.ok THEN Leave(a.c, t, WithTop(stk, f1), "UNINITIALIZED")
                    ELSE Keep(a.c, t, WithTop(stk, f1))
                   EXCEPT !.nest = counted])

\* the frame of RIL_FILE_Upload or RIL_MQTT_Publish: ad gives the first-phase
\* command, whether it is sent with RIL_SendATCmdWithPrompt, its timeout, and
\* the length and the callback of the payload
AdapterFrame(ad) ==
    [NewFrame("adapter", "called") EXCEPT !.cmd = ad.cmd, !.prompt = ad.prompt,
        !.timeOut = ad.timeOut, !.dataLen = ad.dataLen, !.cbk = ad.cbk]

\* a thread calls a two-phase adapter: its first phase,
\* RIL_SendATCmd(cmd, strlen(cmd), NULL, NULL, timeOut) or
\* RIL_SendATCmdWithPrompt(cmd, strlen(cmd), NULL, NULL, timeOut), up to the
\* first turn of the read loop
CallAdapter(t, ad) ==
    /\ Idle(t)
    /\ calls < MaxCalls
    /\ SendEntry(t, << AdapterFrame(ad),
                       SendFrame([cmd |-> ad.cmd, prompt |-> ad.prompt, cbk |-> "NULL",
                                  timeOut |-> ad.timeOut]) >>, TRUE)
    /\ UNCHANGED <<initialized, urcIndicationCallback, powerCommandCallback, host, modem, urcLog>>

\* what follows the return of a phase: after the first, the adapter returns
\* an error unless it got RIL_AT_SUCCESS, and else calls
\* RIL_SendBinaryData(data, len, cb, ud, 30000); after the second it returns
AdapterStep(t) ==
    /\ ~Idle(t)
    /\ Top(t).fn = "adapter" /\ Top(t).pc = "ret"
    /\ LET f == Top(t)
           stk == stack[t]
       IN IF f.got # "SUCCESS" THEN Apply(t, Leave(Ctx, t, stk, "ERROR"))
          ELSE IF f.step = 0
          THEN SendBinaryEntry(t,
                   WithTop(stk, [f EXCEPT !.pc = "called", !.step = 1, !.got = "none"])
                   \o << [NewFrame("sendbin", "lock") EXCEPT !.dataLen = f.dataLen,
                              !.cbk = f.cbk, !.timeOut = 30000] >>, FALSE)
          ELSE Apply(t, Leave(Ctx, t, stk, "OK"))
    /\ UNCHANGED <<initialized, urcIndicationCallback, powerCommandCallback, host, txPending,
                   wire, modem, urcLog>>

\* ----------------------------------------------------- lifecycle controller
ATE1 == <<"A", "T", "E", "1">>
AT_CMEE == <<"A", "T", "+", "C", "M", "E", "E", "=", "1">>
ATV1 == <<"A", "T", "V", "1">>
AT_QURCCFG ==
    <<"A", "T", "+", "Q", "U", "R", "C", "C", "F", "G", "=", "\"", "u", "r", "c", "p",
      "o", "r", "t", "\"", ",", "\"", "u", "a", "r", "t", "1", "\"">>

\* the commands RIL_deInitialize sends once the probe has succeeded, in order
ConfigCommands(urcCb) ==
    <<ATE1, AT_CMEE, ATV1>>
    \o (IF urcCb
        THEN <<AT_QURCCFG>> \o SelectSeq(URC_AT_COMMANDS, LAMBDA c : c # <<>>)
        ELSE <<>>)

\* RIL_SendATCmd(cmd, okRespCallback, NULL, 500)
ConfigRequest(cmd) == [cmd |-> cmd, prompt |-> FALSE, cbk |-> "ok", timeOut |-> 500]

\* the callbacks a caller passes to RIL_initialize: given or NULL
InitArgs == [urcCb : BOOLEAN, powerCommandCb : BOOLEAN, initialResultCb : BOOLEAN]

\* how a modem behaves from one power-up to the next: it does not answer, it
\* echoes and answers OK, it answers OK without echo, it echoes and answers ERROR
Moods == {"dead", "echo", "quiet", "error"}

\* the modem was powered up: it forgets what it was sent
PoweredUp(m) == [m EXCEPT !.cur = 0, !.next = Len(wire) + 1]

\* a retry loop that never gives up
AttemptsUnbounded(retryCount) == TRUE

\* while (retryCount < 3)
MoreAttempts(retryCount) == retryCount < InitAttempts

\* the record h of the board, with the attempt under way having sent one more
\* probe (probe) or reached AT sync (sync)
Noted(h, probe, sync) ==
    IF h.attempts = <<>> THEN h
    ELSE [h EXCEPT !.attempts[Len(h.attempts)] =
             [@ EXCEPT !.probes = IF probe THEN @ + 1 ELSE @,
                       !.synced = @ \/ sync]]

\* RIL_initialize up to its retry loop
CallInit(t, a) ==
    /\ Idle(t)
    /\ calls < MaxCalls
    /\ calls' = calls + 1
    /\ LET f == [NewFrame("init", "attempt") EXCEPT
                    !.cbk = IF a.initialResultCb THEN "result" ELSE "NULL",
                    !.id = host.inits + 1]
       IN IF initialized
          THEN /\ host' = [host EXCEPT !.inits = @ + 1, !.succeeded = TRUE, !.moods = {},
                               !.attempts = <<>>,
                               !.results = IF a.initialResultCb
                                           THEN Append(@, [call |-> f.id, status |-> "SUCCESS"])
                                           ELSE @]
               /\ returned' = RetOf(t, << f >>, "SUCCESS")
               /\ UNCHANGED <<lib, initialized, state, operationMode, expectedBytes, error,
                              urcIndicationCallback, powerCommandCallback, mutex, rx,
                              txPending, modem, stack>>
          ELSE /\ urcIndicationCallback' = a.urcCb
               /\ powerCommandCallback' = a.powerCommandCb
               /\ error' = RIL_AT_UNINITIALIZED % UINT16
               /\ state' = "READY"
               /\ rx' = <<>>
               /\ txPending' = 0
               /\ operationMode' = "Normal"
               /\ initialized' = TRUE
               /\ \E m \in Moods :
                    /\ host' = [host EXCEPT !.inits = @ + 1, !.mood = m, !.moods = {m},
                                         !.attempts = <<>>]
                    /\ modem' = PoweredUp(modem)
               /\ stack' = [stack EXCEPT ![t] = << f >>]
               /\ returned' = NoRet
               /\ UNCHANGED <<expectedBytes, mutex>>
    /\ UNCHANGED <<wire, urcLog, lib>>

\* RIL_initialize: a turn of its retry loop up to the call of
\* RIL_deInitialize, or what follows the return of that call
InitStep(t) ==
    /\ ~Idle(t)
    /\ Top(t).fn = "init"
    /\ LET f == Top(t)
           stk == stack[t]
       IN IF f.pc = "ret"
          THEN IF f.got = "SUCCESS" /\ f.moduleRestarted
               THEN /\ host' = [host EXCEPT !.succeeded = TRUE,
                                    !.results = IF f.cbk = "result"
                                                THEN Append(@, [call |-> f.id, status |-> "SUCCESS"])
                                                ELSE @]
                    /\ stack' = [stack EXCEPT ![t] = <<>>]
                    /\ returned' = RetOf(t, stk, "SUCCESS")
                    /\ modem' = modem
               ELSE /\ IF powerCommandCallback
                       THEN \E m \in Moods :
                              /\ host' = [host EXCEPT !.restarts = @ + 1, !.mood = m,
                                                   !.moods = @ \cup {m}]
                              /\ modem' = PoweredUp(modem)
                       ELSE UNCHANGED <<host, modem>>
                    /\ stack' = [stack EXCEPT ![t] = WithTop(stk,
                           [f EXCEPT !.pc = "delay", !.t0 = tick, !.moduleRestarted = TRUE,
                                     !.retryCount = @ + 1, !.got = "none"])]
                    /\ returned' = NoRet
          ELSE /\ f.pc = "attempt" \/ (f.pc = "delay" /\ tick - f.t0 >= RestartDelayMs)
               /\ modem' = modem
               /\ host' = IF MoreAttempts(f.retryCount)
                          THEN [host EXCEPT !.attempts = Append(@,
                                   [probes |-> 0, synced |-> FALSE, restarted |-> f.moduleRestarted])]
                          ELSE host
               /\ IF MoreAttempts(f.retryCount)
                  THEN /\ stack' = [stack EXCEPT ![t] =
                              WithTop(stk, [f EXCEPT !.pc = "called", !.t0 = 0])
                              \o << [NewFrame("deinit", "sync") EXCEPT !.tryCount = RIL_INIT_RETRY] >>]
                       /\ returned' = NoRet
                  ELSE /\ stack' = [stack EXCEPT ![t] = <<>>]
                       /\ returned' = RetOf(t, stk, "TIMEOUT")
    /\ UNCHANGED <<lib, initialized, state, operationMode, expectedBytes, error,
                   urcIndicationCallback, powerCommandCallback, mutex, rx, txPending, wire,
                   urcLog, calls>>

\* RIL_deInitialize: the next probe or configuration command up to the first
\* turn of its read loop, or the return
DeinitStep(t) ==
    /\ ~Idle(t)
    /\ Top(t).fn = "deinit" /\ Top(t).pc \in {"sync", "ret"}
    /\ LET f == Top(t)
           stk == stack[t]
           cmds == ConfigCommands(urcIndicationCallback)
           synced == f.pc = "ret" /\ (f.step > 0 \/ f.got = "SUCCESS")
           send(g, rq) == SendEntry(t, WithTop(stk, g) \o << SendFrame(rq) >>, FALSE)
       IN IF synced
          THEN /\ host' = Noted(host, FALSE, TRUE)
               /\ IF f.step < Len(cmds)
                  THEN send([f EXCEPT !.pc = "called", !.step = @ + 1, !.got = "none"],
                            ConfigRequest(cmds[f.step + 1]))
                  ELSE /\ Apply(t, Leave(Ctx, t, stk, "SUCCESS"))
                       /\ UNCHANGED <<txPending, wire>>
          ELSE /\ host' = Noted(host, f.tryCount # 0, FALSE)
               /\ IF f.tryCount # 0
                  THEN send([f EXCEPT !.pc = "called", !.tryCount = @ - 1, !.got = "none"],
                            PROBE)
                  ELSE /\ Apply(t, Leave(Ctx, t, stk, "FAILED"))
                       /\ UNCHANGED <<txPending, wire>>
    /\ UNCHANGED <<initialized, urcIndicationCallback, powerCommandCallback, modem, urcLog>>

\* the modem takes the next command it received without echoing it
ModemQuiet ==
    /\ modem.cur = 0
    /\ modem.next <= modem.heard
    /\ modem' = [modem EXCEPT !.cur = modem.next, !.next = @ + 1]
    /\ returned' = NoRet
    /\ UNCHANGED <<lib, initialized, state, operationMode, expectedBytes, error,
                   urcIndicationCallback, powerCommandCallback, host, mutex, rx, txPending,
                   wire, stack, urcLog, calls>>

\* the UART has sent what was written, and the modem in its present mood has
\* said what it has to say to it
ModemDone ==
    /\ txPending = 0
    /\ rx = <<>>
    /\ host.mood = "dead" \/ (modem.cur = 0 /\ modem.next > Len(wire))

\* ---------------------------------------------------------- the SMS library
\* Octets are numbers 0..255, hex strings are tuples of characters.
UpperHex == <<"A", "B", "C", "D", "E", "F">>
LowerHex == <<"a", "b", "c", "d", "e", "f">>

\* the engine's variables, which a library call leaves alone
engine == <<initialized, state, operationMode, expectedBytes, error,
            urcIndicationCallback, powerCommandCallback, mutex, rx, txPending, wire, modem,
            stack, returned, urcLog, calls, host>>

\* a nibble written in lower case
NibbleLower(n) == IF n <= 9 THEN Digits[n + 1] ELSE LowerHex[n - 9]

\* the character LIB_SMS_ConvHexOctToHexStr writes for a nibble
NibbleChar(n) == IF n <= 9 THEN Digits[n + 1] ELSE UpperHex[n - 9]

\* LIB_SMS_ConvHexOctToHexStr(pSrc, uSrcLen, pDest, pDestLen) with *pDestLen =
\* destLen on entry: the return value and the string written
LIB_SMS_ConvHexOctToHexStr(pSrc, destLen) ==
    LET uSrcLen == Len(pSrc) % UINT16
        uRequiredLen == (uSrcLen * 2) % UINT16
    IN IF uSrcLen = 0 \/ destLen < uRequiredLen
       THEN [ok |-> FALSE, dest |-> <<>>]
       ELSE [ok |-> TRUE,
             dest |-> [k \in 1..(2 * uSrcLen) |->
                          IF k % 2 = 1 THEN NibbleChar((pSrc[(k + 1) \div 2] \div 16) % 16)
                          ELSE NibbleChar(pSrc[k \div 2] % 16)]]

\* the value of a hex character as LIB_SMS_ConvHexStrToHexOct reads it, -1
\* for any other character
NibbleVal(c) ==
    IF IsDigit(c) THEN DigitVal(c)
    ELSE IF \E d \in 1..6 : UpperHex[d] = c THEN 9 + (CHOOSE d \in 1..6 : UpperHex[d] = c)
    ELSE IF \E d \in 1..6 : LowerHex[d] = c THEN 9 + (CHOOSE d \in 1..6 : LowerHex[d] = c)
    ELSE -1

\* LIB_SMS_ConvHexStrToHexOct(pSrc, uSrcLen, pDest, pDestLen) with *pDestLen =
\* destLen on entry: the return value and the octets written
LIB_SMS_ConvHexStrToHexOct(pSrc, destLen) ==
    LET uSrcLen == Len(pSrc) % UINT16
    IN IF uSrcLen = 0 \/ uSrcLen % 2 # 0 \/ destLen < uSrcLen \div 2
          \/ \E i \in 1..uSrcLen : NibbleVal(pSrc[i]) = -1
       THEN [ok |-> FALSE, dest |-> <<>>]
       ELSE [ok |-> TRUE,
             dest |-> [k \in 1..(uSrcLen \div 2) |->
                          (NibbleVal(pSrc[2 * k - 1]) * 16 + NibbleVal(pSrc[2 * k])) % 256]]

\* the octet sequences the application converts
OctetSeqs ==
    UNION {[1..n -> SampleOctets] : n \in 0..MaxOctets}

\* the fields of the parameter lists the application parses
Tokens ==
    {<<"1", "2">>, <<"-", "5">>, <<"0">>, <<"t", "r", "u", "e">>, <<"F", "a", "l", "s", "e">>,
     <<"O", "n">>, <<"L", "o", "w">>, <<"N", "u", "l", "l">>, <<"a", "b">>, <<"+", "x">>,
     <<" ", "7">>, <<"7", " ">>}

\* comma-separated lists of one to MaxTokens fields
RECURSIVE TokenLists(_)
TokenLists(n) ==
    IF n = 1 THEN Tokens
    ELSE LET shorter == TokenLists(n - 1)
         IN shorter \cup {l \o << "," >> \o t : l \in shorter, t \in Tokens}

\* the application parses the list s with Param_next until it returns NULL
\* and writes each value with Param_valueToStr, a comma between two values
ParamRoundTrip(s) ==
    /\ lib = NoCall
    /\ lib' = [op |-> "param", s |-> s,
               str |-> Param_toStr(s, [Ptr |-> 1, Len |-> Len(s)])]
    /\ UNCHANGED engine

\* a.aOct[i] of the zero-initialised buffer holding the octets a, i from 0
Oct(a, i) == IF i < Len(a) THEN a[i + 1] ELSE 0

\* n digits unpacked from the semi-octets of a at offset off, low nibble
\* first, as the characters the decoder stores
SemiOctets(a, off, n) ==
    [i \in 1..n |-> IF i % 2 = 1 THEN (Oct(a, off + (i - 1) \div 2) % 16) + 48
                    ELSE (Oct(a, off + (i - 1) \div 2) \div 16) + 48]

\* the seven octets of a time stamp at offset off, each with its nibbles
\* swapped into a decimal number
SwappedStamp(a, off) ==
    [i \in 1..7 |-> ((Oct(a, off + i - 1) % 16) * 10 + (Oct(a, off + i - 1) \div 16)) % 256]

\* a LIB_SMS_PDUParamStruct set to zero; the DELIVER and the SUBMIT members
\* of its union lie on the same bytes: sAddr is sOA or sDA, sStamp is sSCTS or
\* sVP (uRelative its first byte)
NoNumber == [uType |-> 0, aNumber |-> <<>>, uLen |-> 0]

ZeroParam ==
    [sSCA |-> NoNumber, uFO |-> 0, uMsgRef |-> 0, uMsgTot |-> 0, uMsgSeg |-> 0,
     sAddr |-> NoNumber, uPID |-> 0, uDCS |-> 0, sStamp |-> [i \in 1..7 |-> 0],
     aUserData |-> <<>>, uLen |-> 0]

\* the address field the decoder reads at offset off, of length octet uLen:
\* the number stored, the offset after it (the sca form counts octets, the
\* other semi-octets)
DecodeAddress(a, off, uLen, sca) ==
    LET uType == Oct(a, off)
        alpha == (uType \div 16) % 8 = 5
        count == IF sca
                 THEN IF alpha THEN uLen - 1 ELSE ((uLen - 1) * 2) % 256
                 ELSE IF alpha THEN ((uLen + 1) \div 2) % 256 ELSE uLen
        stored == IF sca /\ alpha THEN uLen - 1 ELSE IF sca THEN count ELSE uLen
        used == IF alpha THEN count ELSE (count + 1) \div 2
    IN [num |-> [uType |-> uType,
                 aNumber |-> IF alpha THEN [i \in 1..count |-> Oct(a, off + i)]
                             ELSE SemiOctets(a, off + 1, count),
                 uLen |-> stored],
        next |-> off + 1 + used,
        over |-> count > LIB_SMS_PHONE_NUMBER_MAX_LEN]

\* LIB_SMS_DecodePDUStr(pPDUStr, uPDUStrLen, pParam) on a zeroed *pParam: the
\* possible outcomes, each the return value and *pParam. A write past aNumber
\* or aUserData, or a read past aOct, is undefined: then the call may return
\* either value with the structure as far as the model computed it.
LIB_SMS_DecodePDUStr(pPDUStr) ==
    UNION { UNION { UNION {
        LET a == h.dest
            uFO == Oct(a, sca.next)
            type == uFO % 4
            vpf == (uFO \div 8) % 4
            udhi == (uFO \div 64) % 2
            o2 == adr.next
            stamped == type = 0 \/ vpf = 3
            o3 == o2 + 2 + (IF stamped THEN 7 ELSE IF type = 1 /\ vpf = 2 THEN 1 ELSE 0)
            stamp == IF stamped THEN SwappedStamp(a, o2 + 2)
                     ELSE IF vpf = 2 THEN [ZeroParam.sStamp EXCEPT ![1] = Oct(a, o2 + 2)]
                     ELSE ZeroParam.sStamp
            udl == Oct(a, o3)
            uUDHLen == Oct(a, o3 + 1)
            con == udhi = 1 /\ uUDHLen >= 5 /\ Oct(a, o3 + 2) \in {0, 8}
            o4 == IF udhi = 1 THEN o3 + 2 + uUDHLen ELSE o3 + 1
            uLen == IF udhi = 1 THEN (udl + 256 - ((uUDHLen + 1) % 256)) % 256 ELSE udl
            p == [sSCA |-> sca.num, uFO |-> uFO,
                  uMsgRef |-> IF con THEN Oct(a, o3 + 3) ELSE 0,
                  uMsgTot |-> IF con THEN Oct(a, o3 + 4) ELSE 0,
                  uMsgSeg |-> IF con THEN Oct(a, o3 + 5) ELSE 0,
                  sAddr |-> adr.num, uPID |-> Oct(a, o2), uDCS |-> Oct(a, o2 + 1),
                  sStamp |-> stamp,
                  aUserData |-> [i \in 1..uLen |-> Oct(a, o4 + i - 1)], uLen |-> uLen]
            undefined == \/ sca.over \/ adr.over
                         \/ uLen > LIB_SMS_USER_DATA_MAX_LEN
                         \/ o4 + uLen > LIB_SMS_PDU_BUF_MAX_LEN
            \* uOctLen, and the number of octets of aOct up to the last one read
            n == Len(a)
            read == IF uLen > 0 THEN o4 + uLen
                    ELSE IF con THEN o3 + 6
                    ELSE IF udhi = 1 /\ uUDHLen >= 5 THEN o3 + 3
                    ELSE IF udhi = 1 THEN o3 + 2
                    ELSE o3 + 1
        IN IF Len(pPDUStr) = 0 \/ ~h.ok
           THEN {[ok |-> FALSE, param |-> ZeroParam, uOctLen |-> 0, read |-> 0]}
           ELSE IF sca.over
           THEN {[ok |-> b, param |-> [ZeroParam EXCEPT !.sSCA = sca.num],
                  uOctLen |-> n, read |-> sca.next] : b \in BOOLEAN}
           ELSE IF type \in {2, 3}
           THEN {[ok |-> FALSE, param |-> [ZeroParam EXCEPT !.sSCA = sca.num, !.uFO = uFO],
                  uOctLen |-> n, read |-> sca.next + 1]}
           ELSE IF undefined
           THEN {[ok |-> b, param |-> p, uOctLen |-> n, read |-> read] : b \in BOOLEAN}
           ELSE {[ok |-> TRUE, param |-> p, uOctLen |-> n, read |-> read]}
        \* the originator or destination address; SUBMIT skips the message
        \* reference before it
        : adr \in {LET o1 == sca.next + 1 + (IF Oct(h.dest, sca.next) % 4 = 1 THEN 1 ELSE 0)
                   IN DecodeAddress(h.dest, o1 + 1, Oct(h.dest, o1), FALSE)} }
        \* the SMSC address
        : sca \in {IF Oct(h.dest, 0) > 0 THEN DecodeAddress(h.dest, 1, Oct(h.dest, 0), TRUE)
                   ELSE [num |-> NoNumber, next |-> 1, over |-> FALSE]} }
        \* aOct, uOctLen
        : h \in {LIB_SMS_ConvHexStrToHexOct(pPDUStr, LIB_SMS_PDU_BUF_MAX_LEN)} }

\* LIB_SMS_EncodeSubmitPDU(pParam, pInfo): pInfo->aPDUOct[0 .. pInfo->uLen - 1]
LIB_SMS_EncodeSubmitPDU(pParam) ==
    LET vpf == (pParam.uFO \div 8) % 4
        aNumber(i) == IF i <= Len(pParam.sAddr.aNumber) THEN pParam.sAddr.aNumber[i] ELSE 0
    IN << pParam.uFO, pParam.uMsgRef % 256, pParam.sAddr.uLen, pParam.sAddr.uType >>
       \o [i \in 1..pParam.sAddr.uLen |-> aNumber(i)]
       \o << pParam.uPID, pParam.uDCS >>
       \o (IF vpf = 2 THEN << pParam.sStamp[1] >>
           ELSE IF vpf = 3 THEN pParam.sStamp
           ELSE <<>>)
       \o << pParam.uLen % 256 >>
       \o pParam.aUserData

\* the octets of a SUBMIT PDU in the layout the decoder reads: no SMSC
\* address, first octet, message reference, destination digits packed two to
\* an octet with the filler F, PID, DCS, the validity period the first octet
\* announces, the user data length and the user data
SubmitOctets(fo, digits, pid, dcs, vp, ud) ==
    LET n == Len(digits)
        d(i) == IF i <= n THEN digits[i] ELSE 15
    IN << 0, fo, 0, n, 145 >>
       \o [k \in 1..((n + 1) \div 2) |-> d(2 * k - 1) + 16 * d(2 * k)]
       \o << pid, dcs >>
       \o (IF (fo \div 8) % 4 = 2 THEN << vp >> ELSE <<>>)
       \o << Len(ud) >> \o ud

\* the valid SUBMIT PDU strings the application decodes
SubmitPDUs ==
    {LIB_SMS_ConvHexOctToHexStr(SubmitOctets(fo, digits, 0, dcs, 170, ud),
                                2 * LIB_SMS_PDU_BUF_MAX_LEN).dest :
        fo \in {1, 17}, digits \in {<<4>>, <<4, 6>>, <<4, 6, 7>>}, dcs \in {0, 4},
        ud \in OctetSeqs \ {<<>>}}

\* the application decodes the PDU string P
PduDecode(P) ==
    /\ lib = NoCall
    /\ \E d \in LIB_SMS_DecodePDUStr(P) :
          lib' = [op |-> "pdu", P |-> P, first |-> d, enc |-> <<>>, again |-> {}]
    /\ UNCHANGED engine

\* the application encodes the parameters it decoded and decodes the result,
\* either as the encoder gave it or behind the octet of an empty SMSC address
PduEncodeDecode(sca) ==
    /\ lib.op = "pdu" /\ lib.first.ok /\ lib.again = {}
    /\ LET enc == LIB_SMS_EncodeSubmitPDU(lib.first.param)
           str == LIB_SMS_ConvHexOctToHexStr(sca \o enc, 2 * LIB_SMS_PDU_BUF_MAX_LEN)
       IN \E d \in LIB_SMS_DecodePDUStr(str.dest) :
             lib' = [lib EXCEPT !.enc = enc, !.again = {d}]
    /\ UNCHANGED engine

\* the application converts the octets B to a hex string and, if that
\* succeeded, the string back to octets, with buffers of the library's size
HexRoundTrip(B) ==
    /\ lib = NoCall
    /\ lib' = LET e == LIB_SMS_ConvHexOctToHexStr(B, 2 * LIB_SMS_PDU_BUF_MAX_LEN)
              IN [op |-> "hex", B |-> B, str |-> e,
                  oct |-> IF e.ok
                          THEN LIB_SMS_ConvHexStrToHexOct(e.dest, LIB_SMS_PDU_BUF_MAX_LEN)
                          ELSE [ok |-> FALSE, dest |-> <<>>]]
    /\ UNCHANGED engine

\* LIB_SMS_DecodeDCS(uDCS, &uMsgType, &uAlpha, &uMsgClass, &uCompress): the
\* four values it stores
LIB_SMS_DCS_ALPHA_DEFAULT == 0
LIB_SMS_DCS_ALPHA_UCS2 == 2
LIB_SMS_DCS_MSG_CLASS_RESERVED == 4
LIB_SMS_DCS_COMP_UNCOMPRESSED == 0
LIB_SMS_DecodeDCS(uDCS) ==
    LET uCoding == (uDCS \div 16) % 16
    IN IF uCoding \in {0, 2, 3}
       THEN [uMsgType |-> uCoding,
             uAlpha |-> (uDCS \div 4) % 4,
             uCompress |-> (uDCS \div 32) % 2,
             uMsgClass |-> IF (uDCS \div 16) % 2 = 1 THEN uDCS % 4
                           ELSE LIB_SMS_DCS_MSG_CLASS_RESERVED]
       ELSE IF uCoding \in {4, 5, 6, 7}
       THEN [uMsgType |-> uCoding,
             uAlpha |-> IF uCoding = 6 THEN LIB_SMS_DCS_ALPHA_UCS2
                        ELSE LIB_SMS_DCS_ALPHA_DEFAULT,
             uCompress |-> LIB_SMS_DCS_COMP_UNCOMPRESSED,
             uMsgClass |-> LIB_SMS_DCS_MSG_CLASS_RESERVED]
       ELSE IF uCoding = 15
       THEN [uMsgType |-> uCoding,
             uAlpha |-> (uDCS \div 4) % 4,
             uCompress |-> LIB_SMS_DCS_COMP_UNCOMPRESSED,
             uMsgClass |-> uDCS % 4]
       ELSE [uMsgType |-> uCoding,
             uAlpha |-> LIB_SMS_DCS_ALPHA_DEFAULT,
             uCompress |-> LIB_SMS_DCS_COMP_UNCOMPRESSED,
             uMsgClass |-> LIB_SMS_DCS_MSG_CLASS_RESERVED]

\* the application decodes the DCS octet uDCS
DcsDecode(uDCS) ==
    /\ lib = NoCall
    /\ lib' = [op |-> "dcs", uDCS |-> uDCS, out |-> LIB_SMS_DecodeDCS(uDCS)]
    /\ UNCHANGED engine

\* the application is done with the library's result
LibDone ==
    /\ lib # NoCall
    /\ lib' = NoCall
    /\ UNCHANGED engine

\* ------------------------------------------------------------ specification
\* the context after a successful RIL_initialize, or the zero-filled static
\* context before it
Init ==
    /\ initialized \in BOOLEAN
    /\ state = IF initialized THEN "READY" ELSE "BUSY"
    /\ operationMode = "Normal"
    /\ expectedBytes = 0
    /\ error = 0
    /\ urcIndicationCallback = initialized
    /\ powerCommandCallback = initialized
    /\ mutex = [created |-> FALSE, owner |-> 0, count |-> 0, calls |-> [t \in Threads |-> 0]]
    /\ rx = <<>>
    /\ txPending = 0
    /\ wire = <<>>
    /\ modem = [cur |-> 0, next |-> 1, heard |-> 0, infos |-> 0, urcs |-> 0, seq |-> 0,
                announced |-> 0, owed |-> 0, ready |-> {}]
    /\ stack = [t \in Threads |-> <<>>]
    /\ returned = NoRet
    /\ urcLog = <<>>
    /\ calls = 0
    /\ host = [restarts |-> 0, results |-> <<>>, inits |-> 0,
               succeeded |-> initialized, mood |-> "echo", moods |-> {}, attempts |-> <<>>]
    /\ lib = NoCall

Next ==
    \/ \E t \in Threads : \E rq \in Requests(t) : CallSend(t, rq)
    \/ \E t \in Threads : \E rq \in BinaryRequests(t) : CallSendBinary(t, rq)
    \/ \E t \in Threads : NestedSend(t)
    \/ \E t \in Threads : SendLoop(t)
    \/ \E t \in Threads : BinChunk(t)
    \/ \E t \in Threads : BinDrain(t)
    \/ \E t \in Threads : BinWait(t)
    \/ \E t \in Threads : CbReturn(t)
    \/ \E t \in Pollers : CallService(t)
    \/ \E t \in Threads : SvcRead(t)
    \/ TxCplt
    \/ ModemEcho
    \/ \E line \in InfoLines : ModemInfo(line)
    \/ \E line \in FinalLines \cup {L_PROMPT} : ModemFinal(line)
    \/ \E line \in UrcLines : ModemUrc(line)
    \/ Tick

Spec == Init /\ [][Next]_vars

\* one application task alone, and a modem that sends nothing unsolicited
NextSeq ==
    \/ \E rq \in Requests(1) : CallSend(1, rq)
    \/ \E rq \in BinaryRequests(1) : CallSendBinary(1, rq)
    \/ NestedSend(1)
    \/ SendLoop(1)
    \/ BinChunk(1)
    \/ BinDrain(1)
    \/ BinWait(1)
    \/ CbReturn(1)
    \/ TxCplt
    \/ ModemEcho
    \/ \E line \in InfoLines : ModemInfo(line)
    \/ \E line \in FinalLines \cup {L_PROMPT} : ModemFinal(line)
    \/ Tick

SpecSeq == Init /\ [][NextSeq]_vars

\* the application task and the polling task, before any deadline
NextConc ==
    \/ \E t \in Threads : \E rq \in Requests(t) : CallSend(t, rq)
    \/ \E t \in Threads : \E rq \in BinaryRequests(t) : CallSendBinary(t, rq)
    \/ \E t \in Threads : NestedSend(t)
    \/ \E t \in Threads : SendLoop(t)
    \/ \E t \in Threads : BinChunk(t)
    \/ \E t \in Threads : BinDrain(t)
    \/ \E t \in Threads : BinWait(t)
    \/ \E t \in Threads : CbReturn(t)
    \/ \E t \in Pollers : CallService(t)
    \/ \E t \in Threads : SvcRead(t)
    \/ TxCplt
    \/ ModemEcho
    \/ \E line \in InfoLines : ModemInfo(line)
    \/ \E line \in FinalLines \cup {L_PROMPT} : ModemFinal(line)
    \/ \E line \in UrcLines : ModemUrc(line)

SpecConc == Init /\ [][NextConc]_vars

\* RIL_initialize by the application task, and a command after or before it;
\* from each power-up on, the modem answers every command in one way, and in
\* time if it answers
NextInit ==
    \/ \E a \in InitArgs : CallInit(1, a)
    \/ InitStep(1)
    \/ DeinitStep(1)
    \/ \E rq \in {r \in Requests(1) : r.cbk = "NULL"} : CallSend(1, rq)
    \/ \E rq \in BinaryRequests(1) : CallSendBinary(1, rq)
    \/ SendLoop(1)
    \/ BinChunk(1)
    \/ BinDrain(1)
    \/ BinWait(1)
    \/ TxCplt
    \/ host.mood \in {"echo", "error"} /\ ModemEcho
    \/ host.mood = "quiet" /\ ModemQuiet
    \/ host.mood \in {"echo", "quiet"} /\ ModemFinal(L_OK)
    \/ host.mood = "error" /\ ModemFinal(L_ERROR)
    \/ ModemDone /\ Tick

SpecInit == Init /\ [][NextInit]_vars

\* the same, where the task that called RIL_initialize keeps running, the UART
\* completes what it was given, the modem says what its mood has it say, and
\* time passes
SpecInitLive ==
    /\ Init
    /\ [][NextInit]_vars
    /\ WF_vars(InitStep(1))
    /\ WF_vars(DeinitStep(1))
    /\ WF_vars(SendLoop(1))
    /\ WF_vars(TxCplt)
    /\ WF_vars(host.mood \in {"echo", "error"} /\ ModemEcho)
    /\ WF_vars(host.mood = "quiet" /\ ModemQuiet)
    /\ WF_vars(host.mood \in {"echo", "quiet"} /\ ModemFinal(L_OK))
    /\ WF_vars(host.mood = "error" /\ ModemFinal(L_ERROR))
    /\ WF_vars(ModemDone /\ Tick)

\* RIL_SendATCmd(cmd, strlen(cmd), cb_copy, &ctx, 30000) of RIL_FILE_Read
AT_QFREAD == <<"A", "T", "+", "Q", "F", "R", "E", "A", "D", "=", "1", ",", "9">>
COPY == [cmd |-> AT_QFREAD, prompt |-> FALSE, cbk |-> "copy", timeOut |-> 30000]

\* the first phase of an upload, as a prompted command:
\* RIL_SendATCmdWithPrompt("AT+QFUPL=\"x.bin\",3,5,0", NULL, NULL, 5000)
AT_QFUPL ==
    <<"A", "T", "+", "Q", "F", "U", "P", "L", "=", "\"", "x", ".", "b", "i", "n", "\"",
      ",", "3", ",", "5", ",", "0">>
UPLOAD == [cmd |-> AT_QFUPL, prompt |-> TRUE, cbk |-> "NULL", timeOut |-> 5000]

\* the payload sizes the modem announces: small ones, and one byte more than
\* the RX stream holds
PayloadSizes == {1, 3, RIL_RX_STREAM_SIZE + 1}

\* a turn of the read loop of _RIL_SendATCmd finds nothing to read
NothingToRead ==
    /\ \A t \in Threads :
         (~Idle(t) /\ Top(t).prompt) => IStream_readBytesUntil(rx, ">", RIL_LINE_LEN) = 0
    /\ IF operationMode = "Normal" THEN HeadLen = 0
       ELSE expectedBytes = 0 \/ Len(rx) < expectedBytes

\* one download or one first phase of an upload by the application task: the
\* modem takes the command, with an echo or without, announces a payload,
\* sends it whole or byte by byte once the callback has switched the engine
\* to binary mode, and ends with OK, or it answers CONNECT; time passes once
\* it has, and the read loop has read what it can
NextBin ==
    \/ calls = 0 /\ CallSend(1, COPY)
    \/ calls = 0 /\ CallSend(1, UPLOAD)
    \/ SendLoop(1)
    \/ TxCplt
    \/ ModemEcho
    \/ ModemQuiet
    \/ modem.announced = 0 /\ ModemFinal(CONNECT)
    \/ \E n \in PayloadSizes : ModemConnect(n)
    \/ operationMode = "Binary" /\ \E m \in {1, modem.owed} : ModemPayload(m)
    \/ modem.announced > 0 /\ modem.owed = 0 /\ ModemFinal(L_OK)
    \/ /\ txPending = 0 /\ modem.cur = 0 /\ modem.next > Len(wire)
       /\ NothingToRead
       /\ Tick

SpecBin == Init /\ [][NextBin]_vars

\* the i-th field of a parameter list written in style st: a digit, a digit
\* between blanks, or a digit in the odd places and nothing in the even ones
Field(st, i) ==
    LET d == << Digits[(i % 10) + 1] >>
    IN IF st = 1 THEN d
       ELSE IF st = 2 THEN <<" ">> \o d \o <<" ">>
       ELSE IF i % 2 = 1 THEN d ELSE <<>>

\* k fields in style st, separated by commas
RECURSIVE FieldList(_, _)
FieldList(st, k) ==
    IF k = 0 THEN <<>>
    ELSE IF k = 1 THEN Field(st, 1)
    ELSE FieldList(st, k - 1) \o <<",">> \o Field(st, k)

\* the unsolicited lines whose parameters are parsed: +CMTI alone, and +CMTI:
\* followed by up to MaxFields fields
ParamLines ==
    {SubSeq(L_CMTI, 1, 5)}
    \cup {SubSeq(L_CMTI, 1, 6) \o FieldList(st, k) : st \in 1..3, k \in 0..MaxFields}

\* one unsolicited line with parameters, and the service task that polls
NextParse ==
    \/ \E line \in ParamLines : ModemUrc(line)
    \/ \E t \in Pollers : CallService(t)
    \/ \E t \in Threads : SvcRead(t)

SpecParse == Init /\ [][NextParse]_vars

\* a burst of unsolicited lines of two kinds while the application task
\* sends plain commands, the service task polls, and the URC callback may
\* issue a command of its own
NextUrc ==
    \/ \E rq \in {r \in Requests(1) : r.cbk = "NULL"} : CallSend(1, rq)
    \/ \E t \in Threads : NestedSend(t)
    \/ \E t \in Threads : SendLoop(t)
    \/ \E t \in Threads : CbReturn(t)
    \/ \E t \in Pollers : CallService(t)
    \/ \E t \in Threads : SvcRead(t)
    \/ TxCplt
    \/ ModemEcho
    \/ ModemFinal(L_OK)
    \/ \E line \in {L_CMTI, L_CRING} : ModemUrcUpTo(line, UrcBurst)

SpecUrc == Init /\ [][NextUrc]_vars

\* one call of send by the application task, with what its callbacks nest:
\* the task keeps running and the tick keeps counting; the modem and the
\* UART owe nothing
NextLive ==
    \/ \E rq \in Requests(1) : calls = 0 /\ CallSend(1, rq)
    \/ NestedSend(1)
    \/ SendLoop(1)
    \/ CbReturn(1)
    \/ TxCplt
    \/ ModemEcho
    \/ \E line \in InfoLines : ModemInfo(line)
    \/ \E line \in FinalLines \cup {L_PROMPT} : ModemFinal(line)
    \/ Tick

SpecLive ==
    /\ Init /\ [][NextLive]_vars
    /\ WF_vars(NestedSend(1)) /\ WF_vars(SendLoop(1)) /\ WF_vars(CbReturn(1))
    /\ WF_vars(Tick)

\* the application converts octets to a hex string and back
NextHex ==
    \/ \E B \in OctetSeqs : HexRoundTrip(B)
    \/ LibDone

SpecHex == Init /\ [][NextHex]_vars

\* the application decodes a SUBMIT PDU, encodes what it got and decodes that
NextPdu ==
    \/ \E P \in SubmitPDUs : PduDecode(P)
    \/ \E sca \in {<<>>, <<0>>} : PduEncodeDecode(sca)
    \/ LibDone

SpecPdu == Init /\ [][NextPdu]_vars

\* the application parses a parameter list and writes its values again
NextParam ==
    \/ \E s \in TokenLists(MaxTokens) : ParamRoundTrip(s)
    \/ LibDone

SpecParam == Init /\ [][NextParam]_vars

\* commands of the application task whose responses have the line ERR in
\* their body
NextErr ==
    \/ \E rq \in Requests(1) : CallSend(1, rq)
    \/ NestedSend(1)
    \/ SendLoop(1)
    \/ CbReturn(1)
    \/ TxCplt
    \/ ModemEcho
    \/ \E line \in {L_CSQ, L_ERR} : ModemInfo(line)
    \/ \E line \in {L_OK, L_ERROR, L_CME30, L_CMS500} : ModemFinal(line)
    \/ Tick

SpecErr == Init /\ [][NextErr]_vars

\* AT+QMTPUBEX=0,1,0,0,"t",3 and the line that reports the publication
AT_QMTPUBEX ==
    <<"A", "T", "+", "Q", "M", "T", "P", "U", "B", "E", "X", "=", "0", ",", "1", ",",
      "0", ",", "0", ",", "\"", "t", "\"", ",", "3">>
L_QMTPUBEX == QMTPUBEX_TAG \o <<" ", "0", ",", "1", ",", "0">>

\* RIL_FILE_Upload("x.bin", data, 3, 5, false) and
\* RIL_MQTT_Publish(client, 1, "t", payload, 3, QOS_0, false)
Adapters ==
    { [cmd |-> AT_QFUPL, prompt |-> FALSE, timeOut |-> (5 + 5) * 1000, dataLen |-> 3,
       cbk |-> "cb_QFUPL"],
      [cmd |-> AT_QMTPUBEX, prompt |-> TRUE, timeOut |-> 10000, dataLen |-> 3,
       cbk |-> "ATHandler_QMTPUBEX"] }

\* the modem is executing a command, or a payload
Executing(kind) == modem.cur > 0 /\ wire[modem.cur].kind = kind

\* one upload or one publication by the application task: the modem echoes
\* the command and answers it with CONNECT, with the prompt or with ERROR,
\* takes the payload and answers it with the report and OK; an unsolicited
\* line may come at any time
NextTwoPhase ==
    \/ \E ad \in Adapters : calls = 0 /\ CallAdapter(1, ad)
    \/ AdapterStep(1)
    \/ SendLoop(1)
    \/ BinChunk(1)
    \/ BinDrain(1)
    \/ BinWait(1)
    \/ TxCplt
    \/ ModemEcho
    \/ Executing("cmd") /\ ModemFinal(IF wire[modem.cur].prompt THEN L_PROMPT ELSE CONNECT)
    \/ Executing("cmd") /\ ModemFinal(L_ERROR)
    \/ Executing("bin") /\ ModemInfo(L_QMTPUBEX)
    \/ Executing("bin") /\ ModemFinal(L_OK)
    \/ ModemUrcUpTo(L_CMTI, 1)
    \/ Tick

SpecTwoPhase == Init /\ [][NextTwoPhase]_vars

\* the application task sends the probe RIL_SendATCmd("AT", 2, okRespCallback,
\* NULL, 500) again and again, as RIL_deInitialize does: such a command takes
\* every line up to OK, so that it returns before the modem's final line only
\* when its deadline has passed
NextStale ==
    \/ CallSend(1, PROBE)
    \/ SendLoop(1)
    \/ TxCplt
    \/ ModemEcho
    \/ \E line \in InfoLines : ModemInfo(line)
    \/ \E line \in {L_OK, L_ERROR} : ModemFinal(line)
    \/ Tick

SpecStale == Init /\ [][NextStale]_vars

\* one command of the application task while the polling task keeps calling
\* RIL_ServiceRoutine: every call that is waiting to advance does advance, the
\* UART transmits, the modem answers what it received, and time passes when
\* nothing else is left to happen
NextUrcLive ==
    \/ \E rq \in {r \in Requests(1) : r.cbk = "NULL"} : calls = 0 /\ CallSend(1, rq)
    \/ \E t \in Threads : NestedSend(t)
    \/ \E t \in Threads : SendLoop(t)
    \/ \E t \in Threads : CbReturn(t)
    \/ \E t \in Pollers : CallService(t)
    \/ \E t \in Threads : SvcRead(t)
    \/ TxCplt
    \/ ModemEcho
    \/ ModemFinal(L_OK)
    \/ \E line \in UrcLines : ModemUrc(line)
    \/ ModemDone /\ Tick

SpecUrcLive ==
    /\ Init /\ [][NextUrcLive]_vars
    /\ \A t \in Pollers : WF_vars(CallService(t))
    /\ \A t \in Threads : WF_vars(SvcRead(t)) /\ WF_vars(NestedSend(t))
                             /\ WF_vars(SendLoop(t)) /\ WF_vars(CbReturn(t))
    /\ WF_vars(TxCplt)
    /\ WF_vars(ModemEcho)
    /\ WF_vars(ModemFinal(L_OK))
    /\ WF_vars(ModemDone /\ Tick)

\* one upload or one publication by the application task while the polling
\* task calls RIL_ServiceRoutine, whose subscriber may issue a command
NextTwoPhaseConc ==
    \/ NextTwoPhase
    \/ \E t \in Pollers : CallService(t)
    \/ \E t \in Pollers : SvcRead(t)
    \/ \E t \in Pollers : NestedSend(t)
    \/ \E t \in Pollers : SendLoop(t)
    \/ \E t \in Pollers : CbReturn(t)

SpecTwoPhaseConc == Init /\ [][NextTwoPhaseConc]_vars

\* the lines of the registry: each prefix of URC_LIST alone, and followed by
\* ": 1" or by ",1"
RegistryLines ==
    UNION {{URC_STRINGS[e], URC_STRINGS[e] \o <<":", " ", "1">>, URC_STRINGS[e] \o <<",", "1">>}
           : e \in 1..URC_MAX}

\* the modem sends one line of the registry, and the service task polls
NextRegistry ==
    \/ \E line \in RegistryLines : ModemUrc(line)
    \/ \E t \in Pollers : CallService(t)
    \/ \E t \in Threads : SvcRead(t)

SpecRegistry == Init /\ [][NextRegistry]_vars

\* CmdGetStorageInfo of ril_sms.c: RIL_SendATCmd("AT+CPMS?", 8,
\* SMS_CMD_GeneralHandler, &sUserData, 0), and the line a modem answers it with
AT_CPMS == <<"A", "T", "+", "C", "P", "M", "S", "?">>
L_CPMS == <<"+", "C", "P", "M", "S", ":", " ", "\"", "S", "M", "\"", ",", "1", ",", "5", ",",
            "\"", "S", "M", "\"", ",", "1", ",", "5", ",", "\"", "S", "M", "\"", ",", "1", ",", "5">>
CmdGetStorageInfo ==
    [cmd |-> AT_CPMS, prompt |-> FALSE, cbk |-> "SMS_CMD_GeneralHandler", timeOut |-> 0]

NextSms ==
    \/ CallSend(1, CmdGetStorageInfo)
    \/ SendLoop(1)
    \/ TxCplt
    \/ ModemEcho
    \/ ModemInfo(L_CPMS)
    \/ \E line \in {L_OK, L_ERROR} : ModemFinal(line)
    \/ Tick

SpecSms == Init /\ [][NextSms]_vars

\* the deadline of a command on its own, the tick being the uint32_t counter
\* of milliseconds that HAL_GetTick() returns: a value of 32 bits is kept as
\* its two halves of 16 bits
HALF == 65536
U32(hi, lo) == [hi |-> hi, lo |-> lo]

\* a + ms in uint32_t arithmetic
Add32(a, ms) ==
    LET lo == a.lo + (ms % HALF)
        hi == a.hi + (ms \div HALF) + (lo \div HALF)
    IN U32(hi % HALF, lo % HALF)

\* a < b between two uint32_t
Less32(a, b) == a.hi < b.hi \/ (a.hi = b.hi /\ a.lo < b.lo)

\* what _RIL_GetCurrentTick() returns when a command is sent: early after
\* power-up, half way, and in the last seconds before the counter wraps
StartTicks ==
    {U32(0, 0), U32(0, 1000), U32(32768, 0),
     U32(65535, 60535), U32(65535, 60536), U32(65535, 64536)}

\* the time one turn of a read loop takes when nothing has arrived
TurnMs == {1000, 1500}
\* how long past its timeout a waiting command is followed
MaxLate == 3000

\* _RIL_SendATCmd (fn "send") or RIL_SendBinaryData (fn "sendbin") with
\* timeout timeOut at tick start: the default, then
\* absoluteTimeout = _RIL_GetCurrentTick() + timeOut
CallWait(fn, start, timeOut) ==
    /\ lib = NoCall
    /\ LET ms == IF timeOut # 0 THEN timeOut
                 ELSE IF fn = "send" THEN DefaultTimeout ELSE DefaultBinaryTimeout
       IN lib' = [op |-> "wait", fn |-> fn, start |-> start, now |-> start, timeOut |-> ms,
                  absoluteTimeout |-> Add32(start, ms), elapsed |-> 0, res |-> "none"]
    /\ UNCHANGED engine

\* while (_RIL_GetCurrentTick() < absoluteTimeout) with nothing in the RX
\* stream: the body runs, and d ms later the test is made again
WaitTurn ==
    /\ lib.op = "wait" /\ lib.res = "none"
    /\ Less32(lib.now, lib.absoluteTimeout)
    /\ lib.elapsed < lib.timeOut + MaxLate
    /\ \E d \in TurnMs : lib' = [lib EXCEPT !.now = Add32(@, d), !.elapsed = @ + d]
    /\ UNCHANGED engine

\* the test fails: the loop is left and the command returns RIL_AT_TIMEOUT
WaitExpire ==
    /\ lib.op = "wait" /\ lib.res = "none"
    /\ ~Less32(lib.now, lib.absoluteTimeout)
    /\ lib' = [lib EXCEPT !.res = "TIMEOUT"]
    /\ UNCHANGED engine

NextWrap ==
    \/ \E start \in StartTicks : \E timeOut \in {0, 500} : CallWait("send", start, timeOut)
    \/ \E start \in StartTicks : CallWait("sendbin", start, 0)
    \/ WaitTurn
    \/ WaitExpire
    \/ LibDone

SpecWrap == Init /\ [][NextWrap]_vars

\* SUBMIT PDU strings with addresses and user data at and past the sizes of
\* the arrays that take them, and what is left of each when it is cut short
Filled(n, v) == [i \in 1..n |-> v]
LongPDUs ==
    {LIB_SMS_ConvHexOctToHexStr(SubmitOctets(1, Filled(digits, 4), 0, 0, 170, Filled(ud, 65)),
                                2 * LIB_SMS_PDU_BUF_MAX_LEN).dest :
        digits \in {1, LIB_SMS_PHONE_NUMBER_MAX_LEN, LIB_SMS_PHONE_NUMBER_MAX_LEN + 1},
        ud \in {1, LIB_SMS_USER_DATA_MAX_LEN, LIB_SMS_USER_DATA_MAX_LEN + 1}}
CutShort(P) == {SubSeq(P, 1, 2 * k) : k \in 1..(Len(P) \div 2)}

\* the application decodes PDU strings of any length
NextPduBounds ==
    \/ \E P \in LongPDUs : \E S \in CutShort(P) : PduDecode(S)
    \/ LibDone

SpecPduBounds == Init /\ [][NextPduBounds]_vars

\* the application decodes a DCS octet
NextDcs ==
    \/ \E uDCS \in 0..255 : DcsDecode(uDCS)
    \/ LibDone

SpecDcs == Init /\ [][NextDcs]_vars

\* a SUBMIT PDU string with the UDHI bit set whose user data begins with the
\* header of an 8-bit concatenation element: UDH length 5, IEI 0x00, element
\* length 3, ref, total, seq
ConcatPDU(digits, ref, total, seq) ==
    LIB_SMS_ConvHexOctToHexStr(
        SubmitOctets(65, digits, 0, 0, 170, <<5, 0, 3, ref, total, seq, 65>>),
        2 * LIB_SMS_PDU_BUF_MAX_LEN).dest
Segments == 1..3
Numbers == {<<4>>, <<4, 6>>, <<4, 6, 7>>}

\* the application decodes the segments of concatenated messages
NextConcat ==
    \/ \E digits \in Numbers : \E ref \in SampleOctets : \E total, seq \in Segments :
           PduDecode(ConcatPDU(digits, ref, total, seq))
    \/ LibDone

SpecConcat == Init /\ [][NextConcat]_vars

\* ================================================================ properties
\* the threads with a command between acquire and release
Holders == {t \in Threads : InFlight(t) # {}}

\* this step, thread t's command of kind fn, past its echo and in NORMAL mode,
\* read the frame at the head of the stream, and the frame was line
CommandReads(t, fn, line) ==
    /\ ~Idle(t)
    /\ Top(t).fn = fn /\ Top(t).pc \in {"loop", "wait"} /\ Top(t).echoSeen
    /\ operationMode = "Normal"
    /\ HeadLen > CRLFLen
    /\ FrameLine(HeadLen, TRUE) = line
    /\ rx' = Drop(rx, HeadLen)
    /\ stack'[t] # stack[t]

\* this step, thread t's RIL_ServiceRoutine read the frame at the head of the stream
ServiceReads(t) ==
    /\ ~Idle(t)
    /\ Top(t).fn = "svc" /\ Top(t).pc = "read"
    /\ HeadLen > 0
    /\ rx' = Drop(rx, HeadLen)
    /\ stack'[t] # stack[t]

\* the lines +CME ERROR: <n> and +CMS ERROR: <n> the modem sends, with their n
CodedErrors == {[l |-> L_CME30, n |-> 30], [l |-> L_CMS500, n |-> 500]}

Terminal == {"SUCCESS", "FAILED", "TIMEOUT"}

\* C1: under any interleaving of callers of send and send_binary, at most one
\* thread has a command between acquiring access and releasing it.
C1_MutualExclusion == Cardinality(Holders) <= 1

\* C2: RIL_ServiceRoutine takes bytes from the RX stream only when state is
\* READY and no command is between acquire and release, so it never takes a
\* line the modem sent in answer to a command that is in flight.
C2_ServiceSafe ==
    [][\A t \in Threads :
          ServiceReads(t) =>
              /\ state = "READY"
              /\ Holders \ {t} = {}
              /\ ~(rx[1].src \in {"echo", "info", "final", "prompt"}
                   /\ rx[1].k \in InFlightIds)]_vars

\* C3: after every terminal outcome of send and of send_binary the mode is
\* NORMAL and the expected byte count is 0, also when the response callback
\* called RIL_SetOperationBinary during the command.
C3_ModeRestored ==
    (returned.fn \in {"send", "sendbin"} /\ returned.res \in Terminal)
        => (operationMode = "Normal" /\ expectedBytes = 0)

\* C4: when the response callback returns Failed for a line past the echo
\* received in NORMAL mode, the command returns Failed, in send and in the
\* response phase of send_binary.
C4_CallbackFailedFails ==
    (returned.fn \in {"send", "sendbin"} /\ returned.cbRet = "FAILED" /\ ~returned.binary)
        => returned.res = "FAILED"

\* C5: once initialized, state is BUSY exactly when some send or send_binary
\* call is between acquire and release, also while and after a callback
\* issues a nested command.
C5_BusyIffInFlight == initialized => ((state = "BUSY") <=> (Holders # {}))

\* C6: a URC line the modem sends between the echo and the final line of a
\* command in flight is not delivered to the URC subscriber while that
\* command is in flight.
C6_UrcQuiescence ==
    \A i \in DOMAIN urcLog : ~(urcLog[i].k > 0 /\ urcLog[i].during)

\* C7: a command (AT, ATI: none is the line OK) that stays in NORMAL mode and
\* succeeds on its callback's Success has had its callback invoked never with
\* its own echo, and with the lines it was given in their order of arrival,
\* once each.
C7_EchoSuppressed ==
    (returned.fn = "send" /\ returned.res = "SUCCESS" /\ returned.cbRet = "SUCCESS"
         /\ \A i \in DOMAIN returned.lines : ~returned.lines[i].bin)
        => /\ \A i \in DOMAIN returned.lines :
                 ~(returned.lines[i].src = "echo" /\ returned.lines[i].k = returned.id)
           /\ \A i, j \in DOMAIN returned.lines :
                 i < j => returned.lines[i].n < returned.lines[j].n

\* C8: when send reads, past the echo, a line +CME ERROR: <n> or
\* +CMS ERROR: <n>, it returns Failed at once, its callback has not been
\* given the line, and the last error code is n.
C8_CodedErrorFails ==
    [][\A t \in Threads : \A e \in CodedErrors :
          CommandReads(t, "send", e.l) =>
              /\ returned'.t = t /\ returned'.fn = "send"
              /\ returned'.res = "FAILED"
              /\ returned'.lines = Top(t).lines
              /\ error' = e.n]_vars

\* a send has returned Failed on +CME ERROR: 30 and the last error code is 30
C8_Witness ==
    /\ returned.fn = "send" /\ returned.res = "FAILED"
    /\ returned.on.l = L_CME30 /\ returned.on.src = "final"
    /\ error = 30

\* C9: the last error code is 0 when a command has failed on the bare line
\* ERROR: no +CME/+CMS ERROR line was recognised and no callback reported a
\* code in that attempt.
C9_BareErrorLeavesZero ==
    (returned.fn \in {"send", "sendbin"} /\ returned.res = "FAILED"
         /\ returned.on.l = L_ERROR)
        => error = 0

Issues(t) ==
    /\ Idle(t)
    /\ calls' = calls + 1
    /\ \/ stack'[t] # <<>> /\ stack'[t][1].fn \in {"send", "sendbin"}
       \/ returned'.t = t /\ returned'.fn \in {"send", "sendbin"}

\* C11: a send or send_binary called while no call of init has returned
\* Success (none was made, or the ones made returned Timeout) returns
\* Uninitialized and writes nothing to the transport.
C11_UninitializedBeforeInit ==
    [][\A t \in Threads :
          (Issues(t) /\ ~host.succeeded) =>
              /\ returned'.t = t /\ returned'.res = "UNINITIALIZED"
              /\ wire' = wire /\ txPending' = txPending]_vars

\* C12: a call of init that finds the context uninitialised, is given a power
\* callback, and whose every command the modem answers with exactly
\* \r\nOK\r\n (no echo, at every power-up) returns Success, and exactly one
\* power restart has been requested.
C12_InitHappyPath ==
    (returned.fn = "init" /\ powerCommandCallback /\ host.moods = {"quiet"})
        => (returned.res = "SUCCESS" /\ host.restarts = 1)

\* C13: when a call of init that was given a result callback returns, the
\* callback has been invoked exactly once for that call, with the status the
\* call returns.
C13_ResultReportedOnce ==
    (returned.fn = "init" /\ returned.cbk = "result")
        => \E i \in DOMAIN host.results :
             /\ host.results[i] = [call |-> returned.id, status |-> returned.res]
             /\ \A j \in DOMAIN host.results : host.results[j].call = returned.id => j = i

C15_PayloadDelivered ==
    (returned.fn = "send" /\ returned.cbk = "copy"
         /\ modem.announced > 0 /\ modem.owed = 0)
        => \E i \in DOMAIN returned.lines :
             /\ returned.lines[i].bin
             /\ returned.lines[i].l = Payload(modem.announced)
             /\ \A j \in DOMAIN returned.lines :
                  j # i => (~returned.lines[j].bin
                            /\ (j > i => returned.lines[j].l = L_OK))

\* this step, thread t's prompted send read, in time, the first frame that is
\* not empty, and the frame was line, the modem's answer to this command
PromptedReads(t, line) ==
    /\ ~Idle(t)
    /\ Top(t).fn = "send" /\ Top(t).pc = "loop" /\ Top(t).prompt /\ ~Top(t).echoSeen
    /\ TickBefore(tick, Top(t).deadline)
    /\ operationMode = "Normal"
    /\ HeadLen > CRLFLen
    /\ FrameLine(HeadLen, TRUE) = line
    /\ rx[1].src = "final" /\ rx[1].k = Top(t).id
    /\ rx' = Drop(rx, HeadLen)
    /\ stack'[t] # stack[t]

\* C16: a send with wait_for_prompt and timeout 5000 whose whole answer from
\* the modem is \r\nCONNECT\r\n returns Success on reading that line.
C16_ConnectEndsPrompted ==
    [][\A t \in Threads :
          (PromptedReads(t, CONNECT) /\ Top(t).timeOut = 5000)
              => (returned'.t = t /\ returned'.fn = "send" /\ returned'.res = "SUCCESS")]_vars

\* C17: the events given to the URC subscriber are in the order in which
\* their lines came from the modem, no line twice; an event is given by
\* RIL_ServiceRoutine at its read, one at a time, and a call of
\* RIL_ServiceRoutine reads once.
C17_UrcInOrder ==
    /\ [](\A i, j \in DOMAIN urcLog : i < j => urcLog[i].n < urcLog[j].n)
    /\ [][/\ urcLog' # urcLog =>
                /\ Len(urcLog') = Len(urcLog) + 1
                /\ SubSeq(urcLog', 1, Len(urcLog)) = urcLog
                /\ \E t \in Threads : ServiceReads(t)
          /\ \A t \in Threads :
                (~Idle(t) /\ stack[t][1].fn = "svc" /\ stack[t][1].pc # "read")
                    => (stack'[t] = <<>> \/ stack'[t][1].pc # "read")]_vars

\* three unsolicited lines of two kinds have been delivered, the first of them
\* while more were waiting in the stream
C17_Witness ==
    /\ Len(urcLog) = UrcBurst
    /\ \E i, j \in DOMAIN urcLog : urcLog[i].urcType # urcLog[j].urcType
    /\ urcLog[1].n < urcLog[UrcBurst].n

\* the pieces of s between its commas
RECURSIVE Pieces(_)
Pieces(s) ==
    LET commas == {i \in 1..Len(s) : s[i] = ","}
    IN IF commas = {} THEN << s >>
       ELSE LET q == CHOOSE i \in commas : \A j \in commas : i <= j
            IN << SubSeq(s, 1, q - 1) >> \o Pieces(SubSeq(s, q + 1, Len(s)))

\* s without the white space around it
Trimmed(s) ==
    LET inked == {i \in 1..Len(s) : ~IsSpace(s[i])}
    IN IF inked = {} THEN <<>>
       ELSE SubSeq(s, CHOOSE i \in inked : \A j \in inked : i <= j,
                      CHOOSE i \in inked : \A j \in inked : i >= j)

\* the tokens of a line: the pieces of what follows its first ':', but for an
\* empty piece after the last comma; none if there is no ':'
TokensOf(line) ==
    LET colons == {i \in 1..Len(line) : line[i] = ":"}
    IN IF colons = {} THEN <<>>
       ELSE LET first == CHOOSE i \in colons : \A j \in colons : i <= j
                ps == Pieces(SubSeq(line, first + 1, Len(line)))
            IN IF ps[Len(ps)] = <<>> THEN SubSeq(ps, 1, Len(ps) - 1) ELSE ps

\* C18: every event given to the URC subscriber has 0 <= paramCount <= 8; its
\* params are the tokens that follow the first ':' of its line, in order, the
\* ones past the eighth left out; a line without ':' has paramCount = 0.
C18_ParamCountBounded ==
    \A e \in DOMAIN urcLog :
        LET ev == urcLog[e]
            toks == TokensOf(ev.line)
        IN /\ ev.paramCount \in 0..MAX_URC_PARAMS
           /\ ev.paramCount = Min(Len(toks), MAX_URC_PARAMS)
           /\ Len(ev.params) = ev.paramCount
           /\ \A i \in 1..ev.paramCount : ev.params[i] = Trimmed(toks[i])

\* an event has been given for a line of ten tokens, blanks around each, with
\* the first eight of them as its params
C18_Witness ==
    \E e \in DOMAIN urcLog :
        /\ Len(TokensOf(urcLog[e].line)) = MaxFields
        /\ urcLog[e].paramCount = MAX_URC_PARAMS
        /\ urcLog[e].params[MAX_URC_PARAMS] = <<"8">>
        /\ urcLog[e].line[7] = " "

\* C19: commands of several threads are executed one at a time: when a thread
\* writes a command to the modem, no command of another thread is between its
\* acquire and its terminal outcome.
C19_OneCommandAtATime ==
    [][\A t \in Threads :
          (/\ Len(wire') = Len(wire) + 1
           /\ wire'[Len(wire')].kind = "cmd"
           /\ wire'[Len(wire')].by = t)
              => Holders \ {t} = {}]_vars

Observable(p) ==
    << p.sAddr, p.uPID, p.uDCS, p.sStamp, p.uLen, p.aUserData >>

\* C21: decoding the encoding of a decoded valid SUBMIT PDU succeeds and gives
\* the same destination address, PID, DCS, validity period and user data as
\* the first decoding.
C21_PduRoundTrip ==
    (lib.op = "pdu" /\ lib.again # {})
        => \A d \in lib.again :
              d.ok /\ Observable(d.param) = Observable(lib.first.param)

\* s without its white space
NoSpace(s) == SelectSeq(s, LAMBDA c : ~IsSpace(c))

\* C23: the values of the successive Param_next calls on a comma-separated
\* list, written by Param_valueToStr and joined with commas, give the list
\* back, white space aside.
C23_ParamStable ==
    lib.op = "param" => NoSpace(lib.str) = NoSpace(lib.s)

\* this step, thread t's command took the frame at the head of the stream as
\* its echo
TakesAsEcho(t) ==
    /\ ~Idle(t)
    /\ Top(t).fn = "send" /\ ~Top(t).echoSeen
    /\ Len(stack'[t]) = Len(stack[t])
    /\ stack'[t][Len(stack[t])].echoSeen

\* C24: a command that has not seen its echo takes a frame as the echo only
\* if the frame is the command it sent.
C24_EchoOnlyIfCommand ==
    [][\A t \in Threads : TakesAsEcho(t) => FrameLine(HeadLen, TRUE) = Top(t).cmd]_vars

\* this step, thread t's command returned Failed on the line it read, which
\* its callback was not given
EndsAsError(t) ==
    /\ returned'.t = t /\ returned'.fn = "send"
    /\ returned'.res = "FAILED"
    /\ returned'.lines = Top(t).lines

\* C25: a line read past the echo ends the command as an error exactly if it
\* is +CME ERROR: <n>, +CMS ERROR: <n> or ERROR; any other line, the shorter
\* ERR for one, does not.
C25_ErrorLinesOnly ==
    [][\A t \in Threads : \A line \in {L_CSQ, L_ERR, L_OK, L_ERROR, L_CME30, L_CMS500} :
          CommandReads(t, "send", line) =>
              (EndsAsError(t) <=> line \in {L_ERROR, L_CME30, L_CMS500})]_vars

\* this step, thread t's RIL_SendBinaryData, waiting for responses in BINARY
\* mode with the announced bytes all in the stream, read from the stream
WaitReadsInBinaryMode(t) ==
    /\ ~Idle(t)
    /\ Top(t).fn = "sendbin" /\ Top(t).pc = "wait"
    /\ operationMode = "Binary" /\ expectedBytes > 0
    /\ Len(rx) >= expectedBytes
    /\ Len(rx') < Len(rx)

\* C26: when the callback of RIL_SendBinaryData has announced n bytes with
\* RIL_SetOperationBinary and returned Continue, the response loop reads the
\* next n bytes as one frame, as the loop of RIL_SendATCmd does.
C26_WaitReadsBinaryFrame ==
    [][\A t \in Threads :
          WaitReadsInBinaryMode(t) => rx' = Drop(rx, expectedBytes)]_vars

\* the first-phase command the payload chunk wire[i] belongs to: the last
\* command written before it
FirstPhaseOf(i) ==
    CHOOSE k \in 0..(i - 1) :
        /\ k > 0 => wire[k].kind = "cmd"
        /\ \A j \in (k + 1)..(i - 1) : wire[j].kind # "cmd"

\* the adapter on top of the stack of t calls RIL_SendBinaryData
CallsSendBinary(t) ==
    /\ ~Idle(t)
    /\ Top(t).fn = "adapter" /\ Top(t).step = 0
    /\ Len(stack'[t]) >= Len(stack[t])
    /\ stack'[t][Len(stack[t])].step = 1

\* C27: in a two-phase adapter operation no payload byte is written before
\* the modem has signalled readiness, with the prompt or with CONNECT, for the
\* first-phase command, and RIL_SendBinaryData is not called unless the first
\* phase returned RIL_AT_SUCCESS
C27_PayloadAfterReady ==
    /\ [](\A i \in DOMAIN wire : wire[i].kind = "bin" => FirstPhaseOf(i) \in modem.ready)
    /\ [][\A t \in Threads : CallsSendBinary(t) => Top(t).got = "SUCCESS"]_vars

\* this step, thread t wrote a command to the TX stream while the bytes
\* written before were still being transmitted, so that the flush reported
\* InTransmit
WritesInTransmit(t) ==
    /\ txPending > 0
    /\ Len(wire') = Len(wire) + 1
    /\ wire'[Len(wire')].kind = "cmd" /\ wire'[Len(wire')].by = t

\* this step, the command thread t wrote returned RIL_AT_FAILED
FailsAtOnce(t) ==
    /\ returned'.t = t /\ returned'.fn = "send"
    /\ returned'.id = Len(wire') /\ returned'.res = "FAILED"

\* C28: a command whose bytes were enqueued while a transmission was in
\* progress does not return Failed for that reason: it goes on to its read
\* loop
C28_InTransmitProceeds ==
    [][\A t \in Threads : WritesInTransmit(t) => ~FailsAtOnce(t)]_vars

\* this step, the read loop of thread t's command took a frame from the
\* stream that the modem had emitted for an earlier command
ReadsLeftover(t) ==
    /\ ~Idle(t)
    /\ Top(t).fn = "send" /\ Top(t).pc = "loop"
    /\ HeadLen > CRLFLen
    /\ rx' = Drop(rx, HeadLen)
    /\ rx[1].k > 0 /\ rx[1].k < Top(t).id

\* C29: a command never takes, as its echo, its response or its final line, a
\* line that an earlier command which timed out left in the RX stream
C29_NoLeftoverRead ==
    [][\A t \in Threads : ~ReadsLeftover(t)]_vars

\* the marks the modem may have given to what it emitted
Emissions == 1..(2 * MaxCalls + MaxUrc)

\* the unsolicited line the modem emitted with mark n is whole in the RX
\* stream, it matches the registry, and the engine is READY
UrcWaiting(n) ==
    /\ state = "READY"
    /\ \E i \in DOMAIN rx :
          /\ rx[i].src = "urc" /\ rx[i].n = n
          /\ (i = 1 \/ rx[i - 1].n # n)
          /\ \E line \in UrcLines :
                /\ i + Len(line) + 2 * CRLFLen - 1 <= Len(rx)
                /\ SubSeq(Bytes(rx), i, i + Len(line) + 2 * CRLFLen - 1) = CRLF \o line \o CRLF
                /\ RIL_ParseURC(line).detected

\* the subscriber was given an unsolicited line
UrcDelivered == \E j \in DOMAIN urcLog : urcLog[j].src = "urc"

\* C30: every registry-matching unsolicited line that has arrived whole while
\* the engine is READY is eventually given to the subscriber, RIL_ServiceRoutine
\* being called again and again, even when a command starts before the next
\* call of it. The modem emits MaxUrc = 1 unsolicited line, so the line given
\* is the line that waited.
C30_UrcEventuallyDelivered ==
    (\E n \in Emissions : UrcWaiting(n)) ~> UrcDelivered

\* the adapter of thread t is between its phases: its first-phase command
\* returned RIL_AT_SUCCESS and its RIL_SendBinaryData has not acquired access
BetweenPhases(t) ==
    /\ ~Idle(t)
    /\ Top(t).fn = "adapter" /\ Top(t).pc = "ret"
    /\ Top(t).step = 0 /\ Top(t).got = "SUCCESS"

\* C31: between the return of the first phase of a two-phase adapter and the
\* acquisition of access by its RIL_SendBinaryData, no other thread writes a
\* command to the modem and no call of RIL_ServiceRoutine takes bytes from the
\* RX stream
C31_PhasesAtomic ==
    [][\A t \in Threads :
          BetweenPhases(t) =>
              /\ wire' # wire => wire'[Len(wire')].by = t
              /\ \A u \in Threads : ~ServiceReads(u)]_vars

\* C32: when init returns from its retry loop, every power restart it
\* requested was followed by another attempt to synchronise and configure:
\* it made more attempts than it requested restarts
C32_RestartThenRetry ==
    (returned.fn = "init" /\ host.attempts # <<>>) => Len(host.attempts) > host.restarts

L_RDY == <<"R", "D", "Y">>

\* this step, RIL_ServiceRoutine on thread t read the frame line from the
\* stream while a subscriber was registered
ServiceReadsLine(t, line) ==
    /\ ServiceReads(t)
    /\ urcIndicationCallback
    /\ HeadLen > CRLFLen
    /\ FrameLine(HeadLen, FALSE) = line

\* C33: a line of every prefix family of the registry is recognised, and the
\* line RDY read by RIL_ServiceRoutine while a subscriber is registered gives
\* the subscriber exactly one event, of type URC_RDY with no parameters
C33_RdyRecognised ==
    [][\A t \in Threads :
          /\ \A e \in 1..URC_MAX :
                ServiceReadsLine(t, URC_STRINGS[e]) => Len(urcLog') = Len(urcLog) + 1
          /\ ServiceReadsLine(t, L_RDY) =>
                /\ Len(urcLog') = Len(urcLog) + 1
                /\ urcLog'[Len(urcLog')].urcType = "URC_RDY"
                /\ urcLog'[Len(urcLog')].paramCount = 0]_vars

\* the tags RIL_ParseURC gives to the lines of the registry
TagsGiven == {RIL_ParseURC(line).urcType : line \in RegistryLines} \ {"none"}

\* C40: with a subscriber registered every tag of the registry is deliverable:
\* for each entry there is a line that RIL_ParseURC classifies with the tag of
\* that entry, so that RIL_ServiceRoutine gives the subscriber that tag
C40_EveryTagDeliverable ==
    urcIndicationCallback => \A e \in 1..URC_MAX : URC_NAMES[e] \in TagsGiven

\* C34: while the subscriber runs, every parameter of the event that is a
\* string refers to a buffer that is live and holds what the parser left in it
C34_ScratchLiveInCallback ==
    \A j \in DOMAIN urcLog :
        (\E i \in DOMAIN urcLog[j].params : PointerTyped(urcLog[j].params[i]))
            => urcLog[j].live /\ urcLog[j].seen = urcLog[j].params

\* the records of the commands whose callback is the SMS general handler and
\* has been called: those in progress and the one that just returned
HandlerCalled ==
    UNION {{[lines |-> stack[t][i].lines, cbRet |-> stack[t][i].cbRet]
               : i \in {j \in DOMAIN stack[t] :
                     /\ stack[t][j].cbk = "SMS_CMD_GeneralHandler"
                     /\ stack[t][j].lines # <<>>}}
           : t \in Threads}
    \cup (IF returned.cbk = "SMS_CMD_GeneralHandler" /\ returned.lines # <<>>
          THEN {[lines |-> returned.lines, cbRet |-> returned.cbRet]} ELSE {})

\* C35: the SMS general handler returns Success on the terminal OK line and
\* Continue on every other line that is not an error line, so that AT+CPMS?
\* answered by a +CPMS: line and OK completes with Success
C35_SuccessOnOk ==
    /\ \A h \in HandlerCalled :
           h.cbRet = IF h.lines[Len(h.lines)].l = L_OK THEN "SUCCESS" ELSE "CONTINUE"
    /\ (returned.cbk = "SMS_CMD_GeneralHandler" /\ returned.lines # <<>>
            /\ returned.lines[Len(returned.lines)].l = L_OK)
         => returned.res = "SUCCESS"

\* C36: whatever the tick was when it was sent, a command with timeout T
\* that receives nothing returns Timeout once T ms have elapsed: not before,
\* and not later than the turn of the read loop in which they elapse
C36_DeadlineAcrossWrap ==
    (lib.op = "wait" /\ lib.res = "TIMEOUT")
        => /\ lib.elapsed >= lib.timeOut
           /\ \E d \in TurnMs : lib.elapsed < lib.timeOut + d

\* C37: when decode accepts a hex string, the SMSC address and the
\* originator or destination address hold at most 20 digits, the user data at
\* most 160 bytes, and no octet past those the string gave was read
C37_DecodeWithinBounds ==
    (lib.op = "pdu" /\ lib.first.ok)
        => /\ lib.first.param.sSCA.uLen <= LIB_SMS_PHONE_NUMBER_MAX_LEN
           /\ Len(lib.first.param.sSCA.aNumber) <= LIB_SMS_PHONE_NUMBER_MAX_LEN
           /\ lib.first.param.sAddr.uLen <= LIB_SMS_PHONE_NUMBER_MAX_LEN
           /\ Len(lib.first.param.sAddr.aNumber) <= LIB_SMS_PHONE_NUMBER_MAX_LEN
           /\ lib.first.param.uLen <= LIB_SMS_USER_DATA_MAX_LEN
           /\ lib.first.read <= lib.first.uOctLen

\* C38: for a DCS octet of coding group 0 to 3 the decoder gives the alphabet
\* of bits 2-3, the compression flag of bit 5 and, when bit 4 is set, the
\* message class of bits 0-1
C38_GeneralGroupsDecoded ==
    (lib.op = "dcs" /\ (lib.uDCS \div 16) % 16 \in 0..3)
        => /\ lib.out.uAlpha = (lib.uDCS \div 4) % 4
           /\ lib.out.uCompress = (lib.uDCS \div 32) % 2
           /\ (lib.uDCS \div 16) % 2 = 1 => lib.out.uMsgClass = lib.uDCS % 4

\* C39: decoding a PDU whose user-data header is an 8-bit concatenation
\* element gives ref, total_seg and this_seg as the three octets that follow
\* the element length
C39_ConcatFields ==
    \A digits \in Numbers : \A ref \in SampleOctets : \A total, seq \in Segments :
        (lib.op = "pdu" /\ lib.P = ConcatPDU(digits, ref, total, seq))
            => /\ lib.first.ok
               /\ lib.first.param.uMsgRef = ref
               /\ lib.first.param.uMsgTot = total
               /\ lib.first.param.uMsgSeg = seq
==========================================================================
